---------------------------- MODULE Spec2Model ----------------------------
(***************************************************************************)
(* Model of the ESSL agent backend: the per-device StreamManager state     *)
(* machine (app/core/v1/stream_manager.py), the DevicePoolManager and the  *)
(* MultiDeviceCommandHandler (app/core/v1/device_pool.py), the             *)
(* MultiDeviceStreamCoordinator (app/core/v1/stream.py) and the            *)
(* PollingService (app/service/polling.py).                                *)
(*                                                                         *)
(* Objects are records; a method is an operator from the object (and the   *)
(* outcome of the I/O it performs) to the object after the call.  The      *)
(* background thread of a StreamManager is cut into steps at every read of *)
(* the shared is_running flag and at every blocking I/O call, so that      *)
(* start() and stop() interleave with it as the Python threads do.         *)
(***************************************************************************)
EXTENDS Integers, Sequences, FiniteSets, TLC

VARIABLES
    eng,              \* a StreamManager driven directly through start()/stop()
    server_up,        \* whether the server answers POSTs with a success status
    outages,          \* number of server outages so far
    dev_failures,     \* number of device-side failures injected so far
    raw_logs,         \* device_id -> attendance records stored on the terminal
    delivered,        \* payloads the server has answered with a success status
    read_events,      \* events the engine has read from its device
    pool,             \* the DevicePoolManager
    stream_managers,  \* MultiDeviceStreamCoordinator.stream_managers
    last_dispatch,    \* outcome of the last execute_command call
    last_status,      \* outcome of the last get_all_streaming_status call
    poller,           \* the PollingService
    sent_results,     \* payloads submitted to /api/v1/send_result
    clock,            \* int(time.time()), in hours
    calls,            \* caller -> the stack of registry and coordinator
                      \* methods the caller's thread is inside
    locks             \* owner of DevicePoolManager.lock and of
                      \* MultiDeviceStreamCoordinator.lock

vars == <<eng, server_up, outages, dev_failures, raw_logs, delivered,
          read_events, pool, stream_managers, last_dispatch,
          last_status, poller, sent_results, clock, calls, locks>>

engineVars == <<eng, server_up, outages, dev_failures, raw_logs,
                delivered, read_events>>

agentVars == <<pool, stream_managers, last_dispatch, last_status, poller,
               sent_results, clock, calls, locks>>

---------------------------------------------------------------------------
(* Bounds of the model *)

\* threads one StreamManager object may have spawned and still have alive
MaxThreads == 2
\* live punches a terminal produces per capture stream
MaxLive == 1
\* server outages
MaxOutages == 1
\* device failures (connect, fetch, capture) injected
MaxDevFailures == 4
\* EVENT_QUEUE_MAX_SIZE is 1000 in stream_manager.py:34; the model scales the
\* capacity down so that a full queue is reached
EVENT_QUEUE_MAX_SIZE == 1
\* the error ring keeps 50 records in stream_manager.py:504; scaled down
ERRORS_MAX == 3
\* iterations of the polling loop
MaxPolls == 2
\* hours the wall clock advances
MaxClock == 2
\* events sent, and errors logged, by an engine that is started again
MaxRestartActivity == 0
\* start() coroutines of the poller that are inside the polling loop
MaxLoops == 2
\* threads that call the registry and the coordinator at the same time
MaxCallers == 2
\* errors one engine logs
MaxLogged == 5

(* Program constants *)

MAX_RETRY_ATTEMPTS == 3
RECONNECT_MAX_ATTEMPTS == 3
INITIAL_SYNC_HOURS == 24
DEFAULT_PORT == 4370
DEFAULT_PASSWORD == 0
DEFAULT_TIMEOUT == 10

ThreadIds == 1..MaxThreads

Callers == 1..MaxCallers

\* a threading.Lock nobody holds
Free == 0

DeviceIds == {"device_001", "device_002"}

DeviceIp(d) == IF d = "device_001" THEN "10.0.0.5" ELSE "10.0.0.6"

---------------------------------------------------------------------------
(* Attendance records on the terminal and ESSLDeviceCore.get_attendance *)

\* the wall clock at the time of the historical sync, in hours
SyncClock == 2 * INITIAL_SYNC_HOURS

Rec(u, ts) == [src |-> "log", uid |-> u, timestamp |-> ts]

\* what a terminal may hold: nothing; two records in the lookback window,
\* oldest first; three records, one of them older than the window
RawLogChoices ==
    { <<>>,
      << Rec(1, SyncClock - 3), Rec(2, SyncClock - 1) >>,
      << Rec(1, SyncClock - 2), Rec(2, SyncClock - INITIAL_SYNC_HOURS - 1),
         Rec(3, SyncClock - 1) >> }

RECURSIVE FilterFrom(_, _)
FilterFrom(logs, start_epoch) ==
    IF logs = <<>> THEN <<>>
    ELSE LET l == Head(logs)
             rest == FilterFrom(Tail(logs), start_epoch)
         IN IF l.timestamp # 0 /\ l.timestamp >= start_epoch
            THEN <<l>> \o rest ELSE rest

\* stable insertion into a list sorted by timestamp, newest first
RECURSIVE InsertNewestFirst(_, _)
InsertNewestFirst(sorted, l) ==
    IF sorted = <<>> THEN <<l>>
    ELSE IF Head(sorted).timestamp >= l.timestamp
         THEN <<Head(sorted)>> \o InsertNewestFirst(Tail(sorted), l)
         ELSE <<l>> \o sorted

RECURSIVE SortNewestFirst(_)
SortNewestFirst(logs) ==
    IF logs = <<>> THEN <<>>
    ELSE InsertNewestFirst(SortNewestFirst(SubSeq(logs, 1, Len(logs) - 1)),
                           logs[Len(logs)])

\* an optional Python value: None, or a value
PyNone == <<>>
Some(x) == <<x>>

\* ESSLDeviceCore.get_attendance; the end_time and user_id filters are never
\* passed by the callers modelled here
get_attendance(raw, start_time, limit) ==
    LET filtered == IF start_time # PyNone
                    THEN FilterFrom(raw, start_time[1]) ELSE raw
        sorted == SortNewestFirst(filtered)
    IN IF limit # PyNone /\ limit[1] # 0 /\ limit[1] < Len(sorted)
       THEN SubSeq(sorted, 1, limit[1]) ELSE sorted

LiveEvent(n) == [src |-> "live", uid |-> n, timestamp |-> SyncClock]

\* what the live capture yields besides events: None on a socket timeout;
\* CaptureError stands for the capture raising
NoEvent == [src |-> "none", uid |-> 0, timestamp |-> 0]
CaptureError == [src |-> "error", uid |-> 0, timestamp |-> 0]

SeqToSet(s) == { s[i] : i \in 1..Len(s) }

---------------------------------------------------------------------------
(* StreamManager *)

StreamModes ==
    {"initializing", "syncing", "live", "reconnecting", "stopped", "error"}

SuccessStatus == {200, 201, 204}

\* what one POST attempt can come back with: a response carrying a status
\* code, or httpx.RequestError
Status(code) == [kind |-> "response", status_code |-> code]
RequestError == [kind |-> "RequestError", status_code |-> 0]
UpResponses == { Status(c) : c \in {200, 201, 204} }
DownResponses == { Status(500), Status(404), RequestError }

IdleThread ==
    [pc |-> "idle", attempt |-> 0, rattempt |-> 0, logs |-> <<>>, idx |-> 0,
     ev |-> NoEvent, etype |-> "none"]

StreamManagerInit(device_id, device_ip) ==
    [device_id |-> device_id,
     device_ip |-> device_ip,
     mode |-> "initializing",
     is_running |-> FALSE,
     conn |-> FALSE,
     live_seq |-> 0,
     http_client |-> "none",
     event_queue |-> <<>>,
     stats |-> [total_events_sent |-> 0,
                historical_events_sent |-> 0,
                realtime_events_sent |-> 0,
                failed_events |-> 0,
                last_event_time |-> "none",
                started_at |-> "none",
                errors |-> <<>>],
     threads |-> [t \in ThreadIds |-> IdleThread],
     stop_pc |-> "idle"]

AliveThreads(s) ==
    { t \in ThreadIds : s.threads[t].pc \notin {"idle", "done"} }

At(s, t, loc) == s.threads[t].pc = loc

Goto(s, t, loc) == [s EXCEPT !.threads[t].pc = loc]

_log_error(s, msg) ==
    LET e == Append(s.stats.errors, msg)
    IN [s EXCEPT !.stats.errors =
            IF Len(e) > ERRORS_MAX
            THEN SubSeq(e, Len(e) - ERRORS_MAX + 1, Len(e)) ELSE e]

Payload(s, t) ==
    [device_id |-> s.device_id,
     event_type |-> s.threads[t].etype,
     event_data |-> s.threads[t].ev]

\* a queue built without maxsize: put_nowait never raises queue.Full
_queue_failed_event_unbounded(s, payload) ==
    [s EXCEPT !.event_queue = Append(@, payload)]

_queue_failed_event(s, payload) ==
    IF Len(s.event_queue) < EVENT_QUEUE_MAX_SIZE
    THEN [s EXCEPT !.event_queue = Append(@, payload)]
    ELSE _log_error(s, "Event queue full - event discarded")

\* start(): the state after the call; the thread is spawned in slot t
start(s, t) ==
    IF s.is_running THEN s
    ELSE [s EXCEPT !.is_running = TRUE,
                   !.stats.started_at = "set",
                   !.threads[t] = [IdleThread EXCEPT !.pc = "run_begin"]]

start_result(s) ==
    IF s.is_running
    THEN [success |-> FALSE, message |-> "Stream manager already running"]
    ELSE [success |-> TRUE, message |-> "Stream manager started successfully"]

\* a stop() without the test of the running flag
stop_begin_unguarded(s) ==
    [s EXCEPT !.is_running = FALSE, !.mode = "stopped", !.stop_pc = "join"]

\* stop() up to the join: the flag and the mode are written
stop_begin(s) ==
    IF ~s.is_running THEN s
    ELSE [s EXCEPT !.is_running = FALSE, !.mode = "stopped",
                   !.stop_pc = "join"]

\* a stop() whose cleanup also starts the statistics afresh
stop_finish_resets_stats(s) ==
    [s EXCEPT !.http_client = IF @ = "none" THEN "none" ELSE "closed",
              !.conn = FALSE,
              !.stop_pc = "idle",
              !.stats = [@ EXCEPT !.total_events_sent = 0,
                                  !.historical_events_sent = 0,
                                  !.realtime_events_sent = 0,
                                  !.failed_events = 0]]

\* stop() after the join returned (thread finished, or the 10 s timeout):
\* the transport is closed and the device disconnected
stop_finish(s) ==
    [s EXCEPT !.http_client = IF @ = "none" THEN "none" ELSE "closed",
              !.conn = FALSE,
              !.stop_pc = "idle"]

stop_result(s) ==
    IF ~s.is_running
    THEN [success |-> FALSE, message |-> "Stream manager not running"]
    ELSE [success |-> TRUE, message |-> "Stream manager stopped"]

get_status(s) ==
    [id |-> "",
     command |-> "get_status",
     result |-> [is_running |-> s.is_running,
                 mode |-> s.mode,
                 statistics |-> s.stats,
                 queue_size |-> Len(s.event_queue)],
     device_ip |-> s.device_ip,
     device_id |-> s.device_id,
     success |-> TRUE]

---------------------------------------------------------------------------
(* The background thread of a StreamManager: _run_loop and what it calls.  *)
(* Each operator is one step of thread t of engine s.                      *)

\* _run_loop: the HTTP client is created
ThreadBegin(s, t) ==
    Goto([s EXCEPT !.http_client = "open"], t, "sync_check")

\* _sync_historical_logs: if not self.is_running: return
SyncCheck(s, t) ==
    IF ~s.is_running THEN Goto(s, t, "live_check") ELSE Goto(s, t, "sync_mode")

SyncMode(s, t) ==
    Goto([s EXCEPT !.mode = "syncing"], t, "sync_connect")

\* a sync whose failed connect is fatal: the engine goes to Error and the
\* thread ends
SyncConnect_fatal(s, t, ok) ==
    IF s.conn \/ ok
    THEN Goto([s EXCEPT !.conn = TRUE], t, "sync_fetch")
    ELSE Goto([_log_error(s, "Device error during sync")
                  EXCEPT !.mode = "error"], t, "run_finally")

\* self.device.connect(); ok is the outcome of the connection attempt
SyncConnect(s, t, ok) ==
    IF s.conn \/ ok
    THEN Goto([s EXCEPT !.conn = TRUE], t, "sync_fetch")
    ELSE Goto(_log_error(s, "Device error during sync"), t, "live_check")

\* self.device.get_attendance(start_time=cutoff_time)
SyncFetch(s, t, ok, raw) ==
    IF s.conn /\ ok
    THEN [s EXCEPT !.threads[t].logs =
                       get_attendance(raw,
                                      Some(SyncClock - INITIAL_SYNC_HOURS),
                                      PyNone),
                   !.threads[t].idx = 1,
                   !.threads[t].pc = "sync_loop"]
    ELSE Goto(_log_error(s, "Device error during sync"), t, "live_check")

\* a sync loop that walks the fetched list from its end
SyncLoop_oldest_first(s, t) ==
    LET th == s.threads[t]
    IN IF th.idx > Len(th.logs) \/ ~s.is_running
       THEN Goto(s, t, "live_check")
       ELSE [s EXCEPT !.threads[t].ev = th.logs[Len(th.logs) - th.idx + 1],
                      !.threads[t].etype = "historical",
                      !.threads[t].attempt = 1,
                      !.threads[t].pc = "post"]

\* for log in logs: if not self.is_running: break
SyncLoop(s, t) ==
    LET th == s.threads[t]
    IN IF th.idx > Len(th.logs) \/ ~s.is_running
       THEN Goto(s, t, "live_check")
       ELSE [s EXCEPT !.threads[t].ev = th.logs[th.idx],
                      !.threads[t].etype = "historical",
                      !.threads[t].attempt = 1,
                      !.threads[t].pc = "post"]

\* _reconnect up to the first attempt: mode, disconnect, sleep(5)
EnterReconnect(s, t) ==
    [s EXCEPT !.mode = "reconnecting",
              !.conn = FALSE,
              !.threads[t].rattempt = 1,
              !.threads[t].pc = "reconn_loop"]

\* the caller's code after _send_event_to_server returned success
PostReturn(s, t, success) ==
    IF s.threads[t].etype = "historical"
    THEN [s EXCEPT !.stats.historical_events_sent =
                       IF success THEN @ + 1 ELSE @,
                   !.threads[t].idx = @ + 1,
                   !.threads[t].pc = "sync_loop"]
    ELSE [s EXCEPT !.stats.realtime_events_sent =
                       IF success THEN @ + 1 ELSE @,
                   !.threads[t].pc = "live_capture"]

\* an exception other than httpx.RequestError leaves _send_event_to_server
PostRaised(s, t) ==
    IF s.threads[t].etype = "historical"
    THEN Goto(_log_error(s, "Unexpected error during sync"), t, "live_check")
    ELSE EnterReconnect(_log_error(s, "Unexpected error in live mode"), t)

IsSuccess(resp) ==
    resp.kind = "response" /\ resp.status_code \in SuccessStatus

\* the retry loop running one attempt too many (attempt <= MAX_RETRY_ATTEMPTS)
PostAttempt_extra_attempt(s, t, resp) ==
    IF s.http_client # "open" THEN PostRaised(s, t)
    ELSE IF IsSuccess(resp)
    THEN PostReturn([s EXCEPT !.stats.total_events_sent = @ + 1,
                              !.stats.last_event_time = "set"], t, TRUE)
    ELSE IF s.threads[t].attempt <= MAX_RETRY_ATTEMPTS
    THEN [s EXCEPT !.threads[t].attempt = @ + 1]
    ELSE PostReturn(
            _queue_failed_event([s EXCEPT !.stats.failed_events = @ + 1],
                                Payload(s, t)),
            t, FALSE)

\* one iteration of the retry loop of _send_event_to_server
PostAttempt(s, t, resp) ==
    IF s.http_client # "open" THEN PostRaised(s, t)
    ELSE IF IsSuccess(resp)
    THEN PostReturn([s EXCEPT !.stats.total_events_sent = @ + 1,
                              !.stats.last_event_time = "set"], t, TRUE)
    ELSE IF s.threads[t].attempt < MAX_RETRY_ATTEMPTS
    THEN [s EXCEPT !.threads[t].attempt = @ + 1]
    ELSE PostReturn(
            _queue_failed_event([s EXCEPT !.stats.failed_events = @ + 1],
                                Payload(s, t)),
            t, FALSE)

\* one iteration of the retry loop of _send_event_to_server, up to the
\* return of the function
SendEvent(s, t, resp) ==
    IF s.http_client # "open" THEN PostRaised(s, t)
    ELSE IF IsSuccess(resp)
    THEN Goto([s EXCEPT !.stats.total_events_sent = @ + 1,
                        !.stats.last_event_time = "set"], t, "sent_true")
    ELSE IF s.threads[t].attempt < MAX_RETRY_ATTEMPTS
    THEN [s EXCEPT !.threads[t].attempt = @ + 1]
    ELSE Goto(_queue_failed_event([s EXCEPT !.stats.failed_events = @ + 1],
                                  Payload(s, t)),
              t, "sent_false")

\* the caller's "if success:" after _send_event_to_server has returned
AfterSend(s, t) == PostReturn(s, t, At(s, t, "sent_true"))

\* _live_stream_loop: if not self.is_running: return
LiveCheck(s, t) ==
    IF ~s.is_running THEN Goto(s, t, "run_finally") ELSE Goto(s, t, "live_mode")

\* self.mode = StreamMode.LIVE, then the first test of the while loop
LiveMode(s, t) ==
    Goto([s EXCEPT !.mode = "live"], t,
         IF s.is_running THEN "live_connect" ELSE "run_finally")

\* a live loop that never tests the flag: while True
LiveWhile_forever(s, t) == Goto(s, t, "live_connect")

\* while self.is_running:
LiveWhile(s, t) ==
    IF ~s.is_running THEN Goto(s, t, "run_finally")
    ELSE Goto(s, t, "live_connect")

\* if not self.device.conn: self.device.connect()
LiveConnect(s, t, ok) ==
    IF s.conn \/ ok
    THEN Goto([s EXCEPT !.conn = TRUE], t, "live_capture")
    ELSE EnterReconnect(_log_error(s, "Device error in live mode"), t)

\* the next item of self.device.conn.live_capture(): an attendance event,
\* NoEvent (the capture timed out) or CaptureError (the capture raised)
LiveCapture(s, t, item) ==
    IF ~s.conn \/ item = CaptureError
    THEN EnterReconnect(_log_error(s, "Unexpected error in live mode"), t)
    ELSE LET s1 == IF item = NoEvent THEN s
                   ELSE [s EXCEPT !.live_seq = @ + 1]
         IN IF ~s.is_running THEN Goto(s1, t, "live_while")
            ELSE IF item = NoEvent THEN s1
            ELSE [s1 EXCEPT !.threads[t].ev = item,
                            !.threads[t].etype = "realtime",
                            !.threads[t].attempt = 1,
                            !.threads[t].pc = "post"]

\* _reconnect: for attempt in ...: if not self.is_running: return
ReconnLoop(s, t) ==
    IF ~s.is_running THEN Goto(s, t, "live_while")
    ELSE Goto(s, t, "reconn_connect")

\* a _reconnect that clears the running flag when it gives up
ReconnConnect_clears_flag(s, t, ok) ==
    IF s.conn \/ ok
    THEN Goto([s EXCEPT !.conn = TRUE], t, "live_while")
    ELSE IF s.threads[t].rattempt < RECONNECT_MAX_ATTEMPTS
    THEN [s EXCEPT !.threads[t].rattempt = @ + 1,
                   !.threads[t].pc = "reconn_loop"]
    ELSE Goto([s EXCEPT !.mode = "error", !.is_running = FALSE],
              t, "live_while")

\* _reconnect: self.device.connect() and what follows its outcome
ReconnConnect(s, t, ok) ==
    IF s.conn \/ ok
    THEN Goto([s EXCEPT !.conn = TRUE], t, "live_while")
    ELSE IF s.threads[t].rattempt < RECONNECT_MAX_ATTEMPTS
    THEN [s EXCEPT !.threads[t].rattempt = @ + 1,
                   !.threads[t].pc = "reconn_loop"]
    ELSE Goto([s EXCEPT !.mode = "error"], t, "live_while")

\* _run_loop: finally: self.http_client.close()
RunFinally(s, t) ==
    Goto([s EXCEPT !.http_client = "closed"], t, "done")

---------------------------------------------------------------------------
(* The environment of an engine: the server and the terminal *)

Responses == IF server_up THEN UpResponses ELSE DownResponses

ServerDown ==
    /\ server_up /\ outages < MaxOutages
    /\ server_up' = FALSE
    /\ outages' = outages + 1
    /\ UNCHANGED <<eng, dev_failures, raw_logs, delivered, read_events>>
    /\ UNCHANGED agentVars

ServerUp ==
    /\ ~server_up
    /\ server_up' = TRUE
    /\ UNCHANGED <<eng, outages, dev_failures, raw_logs, delivered,
                   read_events>>
    /\ UNCHANGED agentVars

DeviceFails ==
    /\ dev_failures < MaxDevFailures
    /\ dev_failures' = dev_failures + 1

EngineFrame ==
    /\ UNCHANGED <<server_up, outages, raw_logs>>
    /\ UNCHANGED agentVars

---------------------------------------------------------------------------
(* One StreamManager driven directly: start(), stop() and its threads *)

\* start() on the engine; one run of the engine is followed, so the call
\* is accepted on an engine that was never started, and refused while it runs
Start ==
    /\ eng.stop_pc = "idle"
    /\ IF eng.is_running
       THEN UNCHANGED eng
       ELSE /\ eng.stats.started_at = "none"
            /\ \E t \in ThreadIds :
                  /\ t \notin AliveThreads(eng)
                  /\ \A u \in ThreadIds : u < t => u \in AliveThreads(eng)
                  /\ eng' = start(eng, t)
    /\ UNCHANGED <<server_up, outages, dev_failures, raw_logs, delivered,
                   read_events>>
    /\ UNCHANGED agentVars

StopBegin ==
    /\ eng.stop_pc = "idle"
    /\ eng' = stop_begin(eng)
    /\ UNCHANGED <<dev_failures, delivered, read_events>>
    /\ EngineFrame

\* thread.join(timeout=10) returns when the thread has finished or when the
\* timeout expires, whichever comes first
StopFinish ==
    /\ eng.stop_pc = "join"
    /\ eng' = stop_finish(eng)
    /\ UNCHANGED <<dev_failures, delivered, read_events>>
    /\ EngineFrame

\* start() on an engine that stop() has returned from: the flag is set
\* again and another thread is spawned, whether or not the thread of the
\* earlier run has finished
Restart ==
    /\ eng.stop_pc = "idle"
    /\ ~eng.is_running
    /\ eng.stats.started_at = "set"
    /\ eng.stats.total_events_sent <= MaxRestartActivity
    /\ Len(eng.stats.errors) <= MaxRestartActivity
    /\ \E t \in ThreadIds :
          /\ t \notin AliveThreads(eng)
          /\ \A u \in ThreadIds : u < t => u \in AliveThreads(eng)
          /\ eng' = start(eng, t)
    /\ UNCHANGED <<dev_failures, delivered, read_events>>
    /\ EngineFrame

\* what the live capture may yield next to thread t of s: the terminal's
\* next punch, None on a socket timeout, or the capture raises
CaptureItems(s, oks) ==
    (IF TRUE \in oks
     THEN {NoEvent} \cup (IF s.live_seq < MaxLive
                          THEN {LiveEvent(s.live_seq + 1)} ELSE {})
     ELSE {})
    \cup (IF FALSE \in oks THEN {CaptureError} ELSE {})

\* the engines thread t of s may become in one step of _run_loop, the
\* terminal holding raw, its I/O succeeding as in oks and the server
\* answering as in resps
ThreadSuccessors(s, t, raw, resps, oks) ==
    LET pc == s.threads[t].pc
    IN CASE pc = "run_begin" -> { ThreadBegin(s, t) }
         [] pc = "sync_check" -> { SyncCheck(s, t) }
         [] pc = "sync_mode" -> { SyncMode(s, t) }
         [] pc = "sync_connect" -> { SyncConnect(s, t, ok) : ok \in oks }
         [] pc = "sync_fetch" -> { SyncFetch(s, t, ok, raw) : ok \in oks }
         [] pc = "sync_loop" -> { SyncLoop(s, t) }
         [] pc = "post" -> { PostAttempt(s, t, r) : r \in resps }
         [] pc = "live_check" -> { LiveCheck(s, t) }
         [] pc = "live_mode" -> { LiveMode(s, t) }
         [] pc = "live_while" -> { LiveWhile(s, t) }
         [] pc = "live_connect" -> { LiveConnect(s, t, ok) : ok \in oks }
         [] pc = "live_capture" ->
                { LiveCapture(s, t, item) : item \in CaptureItems(s, oks) }
         [] pc = "reconn_loop" -> { ReconnLoop(s, t) }
         [] pc = "reconn_connect" ->
                { ReconnConnect(s, t, ok) : ok \in oks }
         [] pc = "run_finally" -> { RunFinally(s, t) }
         [] OTHER -> {}

\* thread t of s is about to call the terminal: a connect on a closed
\* connection, or a fetch or capture on an open one
CallsTerminal(s, t) ==
    \/ s.threads[t].pc \in {"sync_connect", "live_connect", "reconn_connect"}
          /\ ~s.conn
    \/ s.threads[t].pc \in {"sync_fetch", "live_capture"} /\ s.conn

\* what the step of thread t from eng to eng' adds to the events read from
\* the terminal and to the events the server has
Observed(t) ==
    /\ read_events' =
          IF At(eng, t, "sync_fetch") /\ At(eng', t, "sync_loop")
          THEN read_events \cup SeqToSet(eng'.threads[t].logs)
          ELSE IF At(eng, t, "live_capture") /\ At(eng', t, "post")
          THEN read_events \cup {eng'.threads[t].ev}
          ELSE read_events
    /\ delivered' =
          IF At(eng, t, "post")
             /\ eng'.stats.total_events_sent > eng.stats.total_events_sent
          THEN delivered \cup {Payload(eng, t)}
          ELSE delivered

\* a step of a thread of the engine in which the terminal, if called,
\* answers
ThreadStep ==
    /\ \E t \in ThreadIds :
          /\ \E s2 \in ThreadSuccessors(eng, t, raw_logs[eng.device_id],
                                         Responses, {TRUE}) : eng' = s2
          /\ Observed(t)
    /\ UNCHANGED dev_failures
    /\ EngineFrame

\* a step of a thread of the engine, the return of _send_event_to_server
\* and the caller's statement after it being steps of their own
ThreadStatement ==
    /\ \E t \in ThreadIds :
          /\ eng' \in
                IF At(eng, t, "post")
                THEN { SendEvent(eng, t, r) : r \in Responses }
                ELSE IF At(eng, t, "sent_true") \/ At(eng, t, "sent_false")
                THEN { AfterSend(eng, t) }
                ELSE ThreadSuccessors(eng, t, raw_logs[eng.device_id],
                                      Responses, {TRUE})
          /\ Observed(t)
    /\ UNCHANGED dev_failures
    /\ EngineFrame

\* a step of a thread of the engine in which the terminal fails
ThreadDeviceFailure ==
    /\ \E t \in ThreadIds :
          /\ CallsTerminal(eng, t)
          /\ \E s2 \in ThreadSuccessors(eng, t, raw_logs[eng.device_id],
                                         Responses, {FALSE}) : eng' = s2
          /\ Observed(t)
    /\ DeviceFails
    /\ EngineFrame

\* _log_error, first statement: self.stats["errors"].append({...}); the
\* record carries the message and the time, which numbers the errors
LogErrorAppend ==
    /\ \E t \in AliveThreads(eng),
          msg \in {"Device error in live mode",
                   "Event queue full - event discarded"} :
          LET logged == IF eng.stats.errors = <<>> THEN 0
                        ELSE eng.stats.errors[Len(eng.stats.errors)].timestamp
          IN /\ ~At(eng, t, "log_trim")
             /\ logged < MaxLogged
             /\ eng' = [eng EXCEPT
                           !.stats.errors =
                               Append(@, [message |-> msg,
                                          timestamp |-> logged + 1]),
                           !.threads[t].pc = "log_trim"]
    /\ UNCHANGED <<dev_failures, delivered, read_events>>
    /\ EngineFrame

\* _log_error, second statement: if len(...) > 50: keep the last 50
LogErrorTrim ==
    /\ \E t \in AliveThreads(eng) :
          /\ At(eng, t, "log_trim")
          /\ eng' = [eng EXCEPT
                        !.stats.errors =
                            IF Len(@) > ERRORS_MAX
                            THEN SubSeq(@, Len(@) - ERRORS_MAX + 1, Len(@))
                            ELSE @,
                        !.threads[t].pc = "run_begin"]
    /\ UNCHANGED <<dev_failures, delivered, read_events>>
    /\ EngineFrame

---------------------------------------------------------------------------
(* Python values and call outcomes *)

\* values the router inspects with isinstance()
PyDict(m) == [type |-> "dict", val |-> m]
PyList(q) == [type |-> "list", val |-> q]

\* None, or the empty string: both are falsy and neither names a device
NoString == ""

\* how a call ends: it returns a value, or an exception leaves it
Returned(v) == [called |-> TRUE, raised |-> FALSE, exc |-> "", value |-> v]
Raised(e) == [called |-> TRUE, raised |-> TRUE, exc |-> e, value |-> PyNone]
NotCalled == [called |-> FALSE, raised |-> FALSE, exc |-> "", value |-> PyNone]

\* a dict with string keys
EmptyMap == [k \in {} |-> PyNone]
Get(m, k, default) == IF k \in DOMAIN m THEN m[k] ELSE default
MapPut(m, k, v) == [x \in DOMAIN m \cup {k} |-> IF x = k THEN v ELSE m[x]]
MapDel(m, k) == [x \in DOMAIN m \ {k} |-> m[x]]
SeqDel(q, x) == SelectSeq(q, LAMBDA y : y # x)

---------------------------------------------------------------------------
(* DevicePoolManager *)

DeviceInfo(device_id, device_ip, port, password, name, location) ==
    [device_id |-> device_id,
     device_ip |-> device_ip,
     port |-> port,
     password |-> password,
     timeout |-> DEFAULT_TIMEOUT,
     name |-> name,
     location |-> location,
     is_active |-> TRUE,
     last_seen |-> PyNone]

to_dict(info) ==
    [device_id |-> info.device_id,
     device_ip |-> info.device_ip,
     port |-> info.port,
     name |-> info.name,
     location |-> info.location,
     is_active |-> info.is_active,
     last_seen |-> info.last_seen]

ESSLDeviceCore(device_ip, port, password) ==
    [device_ip |-> device_ip, port |-> port, password |-> password,
     conn |-> FALSE]

\* the registry after construction with no data.json: devices and
\* device_cores are dicts, order is their insertion order
DevicePoolManagerInit ==
    [devices |-> EmptyMap,
     device_cores |-> EmptyMap,
     order |-> <<>>,
     data_file |-> PyNone]

\* data.json holds one to_dict per device_id, in the order of self.devices
_save_devices(p) ==
    [p EXCEPT !.data_file =
        Some([i \in 1..Len(p.order) |-> to_dict(p.devices[p.order[i]])])]

\* _load_devices: a record and a capability per entry of data.json
_load_devices(p) ==
    IF p.data_file = PyNone THEN p
    ELSE LET devices_data == p.data_file[1]
             ids == [i \in 1..Len(devices_data) |->
                        devices_data[i].device_id]
             device_dict(d) ==
                 devices_data[CHOOSE i \in 1..Len(ids) : ids[i] = d]
             device_info(d) ==
                 [DeviceInfo(device_dict(d).device_id,
                             device_dict(d).device_ip,
                             Get(device_dict(d), "port", DEFAULT_PORT),
                             Get(device_dict(d), "password",
                                 DEFAULT_PASSWORD),
                             Get(device_dict(d), "name", PyNone),
                             Get(device_dict(d), "location", PyNone))
                    EXCEPT !.is_active =
                               Get(device_dict(d), "is_active", TRUE),
                           !.last_seen =
                               Get(device_dict(d), "last_seen", PyNone)]
             loaded == { ids[i] : i \in 1..Len(ids) }
         IN [p EXCEPT
               !.devices =
                   [d \in DOMAIN p.devices \cup loaded |->
                       IF d \in loaded THEN device_info(d)
                       ELSE p.devices[d]],
               !.device_cores =
                   [d \in DOMAIN p.device_cores \cup loaded |->
                       IF d \in loaded
                       THEN ESSLDeviceCore(device_info(d).device_ip,
                                           device_info(d).port,
                                           device_info(d).password)
                       ELSE p.device_cores[d]],
               !.order =
                   p.order \o SelectSeq(ids,
                                 LAMBDA d : d \notin DOMAIN p.devices)]

\* a register_device without the membership test: the record and the
\* capability of a known device_id are replaced
register_device_overwrites(p, device_id, device_ip, port, password, name, location) ==
    LET actual_port == IF port # PyNone THEN port[1] ELSE DEFAULT_PORT
        actual_password ==
            IF password # PyNone THEN password[1] ELSE DEFAULT_PASSWORD
    IN _save_devices(
         [p EXCEPT
            !.devices = MapPut(@, device_id,
                DeviceInfo(device_id, device_ip, actual_port,
                           actual_password, name, location)),
            !.device_cores = MapPut(@, device_id,
                ESSLDeviceCore(device_ip, actual_port, actual_password)),
            !.order = Append(@, device_id)])

register_device(p, device_id, device_ip, port, password, name, location) ==
    IF device_id \in DOMAIN p.devices THEN p
    ELSE LET actual_port == IF port # PyNone THEN port[1] ELSE DEFAULT_PORT
             actual_password ==
                 IF password # PyNone THEN password[1] ELSE DEFAULT_PASSWORD
         IN _save_devices(
              [p EXCEPT
                 !.devices = MapPut(@, device_id,
                     DeviceInfo(device_id, device_ip, actual_port,
                                actual_password, name, location)),
                 !.device_cores = MapPut(@, device_id,
                     ESSLDeviceCore(device_ip, actual_port, actual_password)),
                 !.order = Append(@, device_id)])

register_device_result(p, device_id, device_ip, port, password, name, location) ==
    IF device_id \in DOMAIN p.devices
    THEN [success |-> FALSE,
          message |-> "already registered",
          device_id |-> device_id]
    ELSE [success |-> TRUE,
          message |-> "registered successfully",
          device |-> to_dict(register_device(p, device_id, device_ip, port,
                                 password, name, location).devices[device_id])]

\* an unregister_device that writes the file whether or not it removed a
\* device
unregister_device_always_saves(p, device_id) ==
    _save_devices(
        IF device_id \notin DOMAIN p.devices THEN p
        ELSE [p EXCEPT !.device_cores = MapDel(@, device_id),
                       !.devices = MapDel(@, device_id),
                       !.order = SeqDel(@, device_id)])

\* an unregister_device that deletes the record and leaves the capability
unregister_device_keeps_capability(p, device_id) ==
    IF device_id \notin DOMAIN p.devices THEN p
    ELSE _save_devices([p EXCEPT !.devices = MapDel(@, device_id),
                                 !.order = SeqDel(@, device_id)])

unregister_device(p, device_id) ==
    IF device_id \notin DOMAIN p.devices THEN p
    ELSE _save_devices(
           [p EXCEPT !.device_cores = MapDel(@, device_id),
                     !.devices = MapDel(@, device_id),
                     !.order = SeqDel(@, device_id)])

unregister_device_result(p, device_id) ==
    IF device_id \notin DOMAIN p.devices
    THEN [success |-> FALSE, message |-> "not found"]
    ELSE [success |-> TRUE, message |-> "unregistered successfully"]

get_device_info(p, device_id) ==
    IF device_id \in DOMAIN p.devices
    THEN Some(p.devices[device_id]) ELSE PyNone

get_device_core(p, device_id) ==
    IF device_id \in DOMAIN p.device_cores
    THEN Some(p.device_cores[device_id]) ELSE PyNone

\* the capability of the first registered device with this address, or a
\* temporary one for an unregistered address
get_device_core_by_ip(p, device_ip) ==
    LET hits == SelectSeq(p.order,
                          LAMBDA d : p.devices[d].device_ip = device_ip)
    IN IF hits # <<>> THEN get_device_core(p, hits[1])
       ELSE Some(ESSLDeviceCore(device_ip, DEFAULT_PORT, DEFAULT_PASSWORD))

list_devices(p) ==
    [i \in 1..Len(p.order) |-> to_dict(p.devices[p.order[i]])]

get_active_devices(p) ==
    LET active == SelectSeq(p.order, LAMBDA d : p.devices[d].is_active)
    IN [i \in 1..Len(active) |-> to_dict(p.devices[active[i]])]

_update_last_seen(p, device_id, now) ==
    IF device_id \in DOMAIN p.devices
    THEN [p EXCEPT !.devices[device_id].last_seen = Some(now)]
    ELSE p

---------------------------------------------------------------------------
(* The terminals reached through the registry's capabilities *)

\* an address answers only if a terminal sits there
HasTerminal(ip) == \E d \in DeviceIds : DeviceIp(d) = ip
TerminalAt(ip) == CHOOSE d \in DeviceIds : DeviceIp(d) = ip

\* what the terminal does during one call: whether its port accepts a
\* socket, whether the protocol handshake succeeds, whether the operation
\* raises DeviceError
Behaviour(online, connect, fails) ==
    [online |-> online, connect |-> connect, fails |-> fails]
Healthy == Behaviour(TRUE, TRUE, FALSE)
DeviceBehaviours ==
    { Healthy, Behaviour(FALSE, FALSE, FALSE), Behaviour(TRUE, FALSE, FALSE),
      Behaviour(TRUE, TRUE, TRUE) }

ESSLOperations ==
    {"get_users", "create_user", "update_user", "delete_user",
     "get_attendance", "get_device_info"}

\* keyword parameters of the ESSLDeviceCore methods
RequiredParams(operation) ==
    CASE operation = "create_user" -> {"user_id", "name"}
      [] operation \in {"update_user", "delete_user"} -> {"uid"}
      [] OTHER -> {}

AllowedParams(operation) ==
    CASE operation = "create_user" ->
             {"user_id", "name", "privilege", "password", "card"}
      [] operation = "update_user" ->
             {"uid", "name", "privilege", "password", "card"}
      [] operation = "delete_user" -> {"uid"}
      [] operation = "get_attendance" ->
             {"start_time", "end_time", "user_id", "limit"}
      [] OTHER -> {}

DeviceUsers == << [uid |-> 1, user_id |-> "1001", name |-> "Asha"] >>

\* what the method returns when the terminal answers
OperationResult(operation, kwargs, raw, core) ==
    CASE operation = "get_users" -> PyList(DeviceUsers)
      [] operation = "get_attendance" ->
             PyList(get_attendance(raw, Get(kwargs, "start_time", PyNone),
                                   Get(kwargs, "limit", PyNone)))
      [] operation = "get_device_info" ->
             PyDict([ip |-> core.device_ip, port |-> core.port,
                     firmware |-> "Ver 6.60"])
      [] operation = "create_user" ->
             PyDict([success |-> TRUE, message |-> "created", uid |-> 2,
                     user_id |-> kwargs.user_id])
      [] OTHER -> PyDict([success |-> TRUE, message |-> "done"])

routing_params == {"device_id", "device_ip", "agent_id"}

\* ESSLDeviceCore.connect: the capability after the call and whether
\* DeviceError was raised; a connected capability is left as it is
connect(core, dev) ==
    IF core.conn THEN [core |-> core, raised |-> FALSE]
    ELSE IF HasTerminal(core.device_ip) /\ dev.connect
    THEN [core |-> [core EXCEPT !.conn = TRUE], raised |-> FALSE]
    ELSE [core |-> core, raised |-> TRUE]

\* a disconnect that does not clear self.conn
disconnect_keeps_conn(core) == core

\* ESSLDeviceCore.disconnect
disconnect(core) == [core EXCEPT !.conn = FALSE]

\* the named parameters of execute_on_device; a key of **kwargs that repeats
\* one of them makes the call raise TypeError before the body runs
execute_parameters == {"self", "device_identifier", "operation"}

\* execute_on_device: the registry after the call, the returned dict and
\* whether the call raised instead of returning; core is the capability the
\* call resolved, as the call leaves it, and invoked tells whether the
\* operation was invoked and, if it was, whether the capability was
\* connected then
execute_on_device(p, device_identifier, operation, kwargs, dev, raws, now) ==
    LET device_core ==
            IF device_identifier \in DOMAIN p.devices
            THEN get_device_core(p, device_identifier)
            ELSE get_device_core_by_ip(p, device_identifier)
        device_id == device_identifier
        method_kwargs == DOMAIN kwargs \ routing_params
        \* with device_core.connection(): connect() on entry and, in the
        \* finally clause, disconnect() on every exit
        entered == connect(device_core[1], dev)
        left == disconnect(entered.core)
        \* the capability is an object the registry shares with the call
        kept == [p EXCEPT !.device_cores =
                    [d \in DOMAIN @ |->
                        IF @[d] = device_core[1] THEN left ELSE @[d]]]
        Failure(err, invoked) ==
            [pool |-> kept,
             result |-> [success |-> FALSE, error |-> err,
                         device_id |-> device_id, operation |-> operation],
             core |-> Some(left),
             invoked |-> invoked,
             raised |-> FALSE]
    IN IF DOMAIN kwargs \cap execute_parameters # {}
       THEN [pool |-> p,
             result |-> EmptyMap,
             core |-> PyNone,
             invoked |-> PyNone,
             raised |-> TRUE]
       ELSE IF device_core = PyNone
       THEN [pool |-> p,
             result |-> [success |-> FALSE, error |-> "not found",
                         device_id |-> device_id],
             core |-> PyNone,
             invoked |-> PyNone,
             raised |-> FALSE]
       ELSE IF entered.raised
       THEN Failure("Connection failed", PyNone)
       ELSE IF operation \notin ESSLOperations
       THEN [pool |-> kept,
             result |-> [success |-> FALSE, error |-> "Unknown operation",
                         device_id |-> device_id],
             core |-> Some(left),
             invoked |-> PyNone,
             raised |-> FALSE]
       ELSE IF ~(RequiredParams(operation) \subseteq method_kwargs
                 /\ method_kwargs \subseteq AllowedParams(operation))
       THEN [pool |-> kept,
             result |-> [success |-> FALSE, error |-> "Parameter error",
                         device_id |-> device_id, operation |-> operation,
                         hint |-> "Check method signature"],
             core |-> Some(left),
             invoked |-> PyNone,
             raised |-> FALSE]
       ELSE IF dev.fails
       THEN Failure("DeviceError", Some(entered.core.conn))
       ELSE [pool |-> _update_last_seen(kept, device_id, now),
             result |-> [success |-> TRUE,
                         device_id |-> device_id,
                         operation |-> operation,
                         result |-> OperationResult(operation, kwargs,
                             raws[TerminalAt(device_core[1].device_ip)],
                             device_core[1])],
             core |-> Some(left),
             invoked |-> Some(entered.core.conn),
             raised |-> FALSE]

\* check_device_health: the registry after the call and the health dict
check_device_health(p, device_id, dev, now) ==
    LET device_core == get_device_core(p, device_id)
        device_info == get_device_info(p, device_id)
    IN IF device_core = PyNone \/ device_info = PyNone
       THEN [pool |-> p,
             result |-> [device_id |-> device_id, online |-> FALSE,
                         error |-> "Device not found"]]
       ELSE LET is_online ==
                    HasTerminal(device_core[1].device_ip) /\ dev.online
                health == [device_id |-> device_id,
                           device_ip |-> device_info[1].device_ip,
                           online |-> is_online,
                           last_seen |-> device_info[1].last_seen]
            IN IF ~is_online THEN [pool |-> p, result |-> health]
               ELSE IF ~dev.connect \/ dev.fails
               THEN [pool |-> p,
                     result |-> [device_id |-> health.device_id,
                                 device_ip |-> health.device_ip,
                                 online |-> health.online,
                                 last_seen |-> health.last_seen,
                                 connection_error |-> "DeviceError",
                                 can_connect |-> FALSE]]
               ELSE [pool |-> _update_last_seen(p, device_id, now),
                     result |-> [device_id |-> health.device_id,
                                 device_ip |-> health.device_ip,
                                 online |-> health.online,
                                 last_seen |-> health.last_seen,
                                 firmware |-> "Ver 6.60"]]

---------------------------------------------------------------------------
(* MultiDeviceCommandHandler *)

ManagementCommands ==
    {"register_device", "unregister_device", "list_devices", "device_health"}

command_map ==
    [c \in {"get_users", "create_user", "update_user", "delete_user",
            "get_attendance", "get_device_info"} |-> c]

Envelope(id, command, result, device_ip, device_id, success, now) ==
    [id |-> id,
     agent_id |-> "agent",
     command |-> command,
     mac_address |-> "mac",
     result |-> result,
     device_ip |-> device_ip,
     device_id |-> device_id,
     success |-> success,
     timestamp |-> now]

\* the envelope built from what the registry call returned; result.get
\* raises AttributeError on a list and the handler re-raises DeviceError
ManagementEnvelope(call, command, params, command_id, now) ==
    IF call.result.type # "dict"
    THEN [pool |-> call.pool, out |-> Raised("DeviceError")]
    ELSE [pool |-> call.pool,
          out |-> Returned(
              Envelope(command_id, command, call.result,
                       Get(params, "device_ip", NoString),
                       Get(params, "device_id", NoString),
                       Get(call.result.val, "success", TRUE), now))]

HealthCall(h) == [pool |-> h.pool, result |-> PyDict(h.result)]

\* the registry after the call and how the call ended
_execute_management_command(p, command, params, command_id, dev, now) ==
    ManagementEnvelope(
        CASE command = "register_device" ->
               [pool |-> register_device(p,
                            Get(params, "device_id", NoString),
                            Get(params, "device_ip", NoString),
                            Get(params, "port", Some(DEFAULT_PORT)),
                            Get(params, "password", Some(DEFAULT_PASSWORD)),
                            Get(params, "name", PyNone),
                            Get(params, "location", PyNone)),
                result |-> PyDict(register_device_result(p,
                            Get(params, "device_id", NoString),
                            Get(params, "device_ip", NoString),
                            Get(params, "port", Some(DEFAULT_PORT)),
                            Get(params, "password", Some(DEFAULT_PASSWORD)),
                            Get(params, "name", PyNone),
                            Get(params, "location", PyNone)))]
          [] command = "unregister_device" ->
               [pool |-> unregister_device(p,
                            Get(params, "device_id", NoString)),
                result |-> PyDict(unregister_device_result(p,
                            Get(params, "device_id", NoString)))]
          [] command = "list_devices" ->
               [pool |-> p, result |-> PyList(list_devices(p))]
          [] command = "device_health" ->
               HealthCall(check_device_health(p,
                            Get(params, "device_id", NoString), dev, now))
          [] OTHER -> [pool |-> p, result |-> PyDict(EmptyMap)],
        command, params, command_id, now)

\* a normalisation that wraps every list under the generic key
FormatResult_items_only(command, operation_result) ==
    IF operation_result.type = "list"
    THEN [items |-> operation_result.val,
          count |-> Len(operation_result.val)]
    ELSE IF operation_result.type = "dict" THEN operation_result.val
    ELSE [value |-> operation_result.val]

\* wraps what the operation returned into a dict
FormatResult(command, operation_result) ==
    IF operation_result.type = "list"
    THEN IF command = "get_users"
         THEN [users |-> operation_result.val,
               count |-> Len(operation_result.val)]
         ELSE IF command = "get_attendance"
         THEN [logs |-> operation_result.val,
               count |-> Len(operation_result.val)]
         ELSE [items |-> operation_result.val,
               count |-> Len(operation_result.val)]
    ELSE IF operation_result.type = "dict" THEN operation_result.val
    ELSE [value |-> operation_result.val]

\* the envelope built from what execute_on_device returned; an exception of
\* the call leaves execute_command, which has no try around it
DeviceEnvelope(p, id, command, device_identifier, ex, now) ==
    IF ex.raised THEN [pool |-> ex.pool, out |-> Raised("TypeError")]
    ELSE
    [pool |-> ex.pool,
     out |-> Returned(
         Envelope(id, command,
                  PyDict(FormatResult(command,
                             IF "result" \in DOMAIN ex.result
                             THEN ex.result.result ELSE PyDict(ex.result))),
                  IF device_identifier \in DOMAIN p.devices
                  THEN p.devices[device_identifier].device_ip
                  ELSE device_identifier,
                  device_identifier, ex.result.success, now))]

Refused(p, id, command, err, device_id, now) ==
    [pool |-> p,
     out |-> Returned(Envelope(id, command, PyDict([error |-> err]),
                               "", device_id, FALSE, now))]

\* the command after the special handling of get_attendance
AttendanceParams(command, params) ==
    IF command = "get_attendance"
    THEN MapPut(params, "limit", Get(params, "limit", Some(1000)))
    ELSE params

\* a router without the test against the command table: every name goes to
\* execute_on_device as the operation
Route_passes_unknown(p, id, command, params, device_identifier, dev, raws, now) ==
    IF command \in ManagementCommands
    THEN _execute_management_command(p, command, params, id, dev, now)
    ELSE IF device_identifier = NoString
    THEN Refused(p, id, command,
                 "Missing device_id or device_ip in command", "", now)
    ELSE IF command = NoString
    THEN Refused(p, id, command, "Missing command in request",
                 device_identifier, now)
    ELSE DeviceEnvelope(p, id, command, device_identifier,
             execute_on_device(p, device_identifier, command,
                               AttendanceParams(command, params), dev, raws,
                               now),
             now)

\* execute_command once id, command, params and the routing target are read
Route(p, id, command, params, device_identifier, dev, raws, now) ==
    IF command \in ManagementCommands
    THEN _execute_management_command(p, command, params, id, dev, now)
    ELSE IF device_identifier = NoString
    THEN Refused(p, id, command,
                 "Missing device_id or device_ip in command", "", now)
    ELSE IF command = NoString
    THEN Refused(p, id, command, "Missing command in request",
                 device_identifier, now)
    ELSE IF command \notin DOMAIN command_map
    THEN Refused(p, id, command, "Unknown command", device_identifier, now)
    ELSE DeviceEnvelope(p, id, command, device_identifier,
             execute_on_device(p, device_identifier, command_map[command],
                               AttendanceParams(command, params), dev, raws,
                               now),
             now)

\* execute_command: the registry after the call and how the call ended
execute_command(p, command_data, dev, raws, now) ==
    Route(p,
          Get(command_data, "id", NoString),
          Get(command_data, "command", NoString),
          Get(command_data, "params", EmptyMap),
          IF Get(command_data, "device_id", NoString) # NoString
          THEN command_data.device_id
          ELSE Get(command_data, "device_ip", NoString),
          dev, raws, now)

---------------------------------------------------------------------------
(* PollingService *)

\* loops counts the start() coroutines that are inside the while loop, each
\* of them suspended in asyncio.sleep between two poll cycles
PollingServiceInit ==
    [is_running |-> FALSE,
     loops |-> 0,
     stats |-> [total_polls |-> 0,
                commands_received |-> 0,
                commands_executed |-> 0,
                commands_failed |-> 0,
                last_poll_time |-> PyNone,
                last_command_time |-> PyNone,
                errors |-> <<>>]]

\* PollingService._log_error; the ring keeps 50 records, scaled like the
\* engine's
polling_log_error(ps, msg) ==
    LET e == Append(ps.stats.errors, msg)
    IN [ps EXCEPT !.stats.errors =
            IF Len(e) > ERRORS_MAX
            THEN SubSeq(e, Len(e) - ERRORS_MAX + 1, Len(e)) ELSE e]

\* what the server answers to a request: a status code and a JSON body, or
\* the transport fails
HttpResponse(code, body) ==
    [kind |-> "response", status_code |-> code, body |-> body]
ConnectError == [kind |-> "ConnectError", status_code |-> 0, body |-> PyNone]

\* a fetch whose transport error ends the polling loop
_fetch_command_stops_on_error(ps, response) ==
    IF response.kind = "ConnectError"
    THEN [poller |-> [polling_log_error(ps, "Connection error")
                         EXCEPT !.is_running = FALSE],
          command_data |-> PyNone]
    ELSE IF response.status_code # 200
    THEN [poller |-> ps, command_data |-> PyNone]
    ELSE IF response.body.type # "dict" \/ DOMAIN response.body.val = {}
    THEN [poller |-> ps, command_data |-> PyNone]
    ELSE IF Get(response.body.val, "data", PyNone) = PyNone
    THEN [poller |-> ps, command_data |-> PyNone]
    ELSE [poller |-> ps, command_data |-> response.body.val.data]

\* _fetch_command: the poller after the call and the command, or None
_fetch_command(ps, response) ==
    IF response.kind = "ConnectError"
    THEN [poller |-> polling_log_error(ps, "Connection error"),
          command_data |-> PyNone]
    ELSE IF response.status_code # 200
    THEN [poller |-> ps, command_data |-> PyNone]
    ELSE IF response.body.type # "dict" \/ DOMAIN response.body.val = {}
    THEN [poller |-> ps, command_data |-> PyNone]
    ELSE IF Get(response.body.val, "data", PyNone) = PyNone
    THEN [poller |-> ps, command_data |-> PyNone]
    ELSE [poller |-> ps, command_data |-> response.body.val.data]

\* _execute_command after the router's call ended as ex
ExecuteOutcome(ps, ex, command_data, now) ==
    IF ex.out.raised
    THEN [poller |-> polling_log_error(
                         [ps EXCEPT !.stats.commands_failed = @ + 1],
                         "Command execution error"),
          pool |-> ex.pool,
          dispatch |-> ex.out,
          result |-> [success |-> FALSE,
                      error |-> "Execution error",
                      command |-> Get(command_data, "command", NoString),
                      executed_at |-> now]]
    ELSE [poller |-> IF ex.out.value.success
                     THEN [ps EXCEPT !.stats.commands_executed = @ + 1]
                     ELSE [ps EXCEPT !.stats.commands_failed = @ + 1],
          pool |-> ex.pool,
          dispatch |-> ex.out,
          result |-> ex.out.value]

\* _execute_command: the poller and the registry after the call, the
\* returned result and how the router's call ended
_execute_command(ps, p, command_data, dev, raws, now) ==
    ExecuteOutcome(ps, execute_command(p, command_data, dev, raws, now),
                   command_data, now)

\* _send_result: the poller after the POST of the payload
_send_result(ps, response) ==
    IF response.kind = "ConnectError"
    THEN polling_log_error(ps, "Connection error when sending result")
    ELSE ps

\* _poll_cycle after the command ran: the result is submitted
SubmitResult(ex, send_response) ==
    [poller |-> _send_result(ex.poller, send_response),
     pool |-> ex.pool,
     dispatch |-> ex.dispatch,
     sent |-> Some(ex.result)]

NoCommand(ps, p) ==
    [poller |-> ps, pool |-> p, dispatch |-> NotCalled, sent |-> PyNone]

\* _poll_cycle after _fetch_command returned, with what start()'s loop does
\* when the cycle raises
AfterFetch(fetched, p, dev, send_response, raws, now) ==
    IF fetched.command_data = PyNone THEN NoCommand(fetched.poller, p)
    \* an empty list or an empty dict is "no command"
    ELSE IF fetched.command_data[1].type = "list"
            /\ Len(fetched.command_data[1].val) = 0
    THEN NoCommand(fetched.poller, p)
    ELSE IF fetched.command_data[1].type = "dict"
            /\ DOMAIN fetched.command_data[1].val = {}
    THEN NoCommand(fetched.poller, p)
    \* command_data.get raises AttributeError on a list or a scalar
    ELSE IF fetched.command_data[1].type # "dict"
    THEN NoCommand(polling_log_error(fetched.poller, "Poll cycle error"), p)
    ELSE SubmitResult(
             _execute_command(
                 [fetched.poller EXCEPT
                     !.stats.commands_received = @ + 1,
                     !.stats.last_command_time = Some(now)],
                 p, fetched.command_data[1].val, dev, raws, now),
             send_response)

_poll_cycle(ps, p, fetch_response, dev, send_response, raws, now) ==
    AfterFetch(
        _fetch_command([ps EXCEPT !.stats.total_polls = @ + 1,
                                  !.stats.last_poll_time = Some(now)],
                       fetch_response),
        p, dev, send_response, raws, now)

---------------------------------------------------------------------------
(* MultiDeviceStreamCoordinator; stream_managers maps a device_id to its    *)
(* StreamManager                                                            *)

\* a start_streaming_device without the test for an engine already held
start_streaming_device_unchecked(sm, p, device_id) ==
    IF get_device_info(p, device_id) = PyNone
    THEN [stream_managers |-> sm,
          result |-> [success |-> FALSE, error |-> "not found in pool",
                      device_id |-> device_id]]
    ELSE LET stream_manager ==
                 StreamManagerInit(device_id,
                                   get_device_info(p, device_id)[1].device_ip)
             result == start_result(stream_manager)
         IN [stream_managers |->
                 IF result.success
                 THEN MapPut(sm, device_id, start(stream_manager, 1))
                 ELSE sm,
             result |-> result]

\* a start_streaming_device that gives a device whose engine is in Error a
\* fresh engine
start_streaming_device_restarts_error(sm, p, device_id) ==
    IF device_id \in DOMAIN sm /\ sm[device_id].mode # "error"
    THEN [stream_managers |-> sm,
          result |-> [success |-> FALSE, message |-> "already streaming",
                      device_id |-> device_id]]
    ELSE start_streaming_device_unchecked(sm, p, device_id)

\* start_streaming_device: the map after the call and the returned dict
start_streaming_device(sm, p, device_id) ==
    IF device_id \in DOMAIN sm
    THEN [stream_managers |-> sm,
          result |-> [success |-> FALSE, message |-> "already streaming",
                      device_id |-> device_id]]
    ELSE IF get_device_info(p, device_id) = PyNone
    THEN [stream_managers |-> sm,
          result |-> [success |-> FALSE, error |-> "not found in pool",
                      device_id |-> device_id]]
    ELSE LET stream_manager ==
                 StreamManagerInit(device_id,
                                   get_device_info(p, device_id)[1].device_ip)
             result == start_result(stream_manager)
         IN [stream_managers |->
                 IF result.success
                 THEN MapPut(sm, device_id, start(stream_manager, 1))
                 ELSE sm,
             result |-> result]

\* stop_streaming_device: stop() runs to its end while the coordinator lock
\* is held, and the stopped engine leaves the map
stop_streaming_device(sm, device_id) ==
    IF device_id \notin DOMAIN sm
    THEN [stream_managers |-> sm,
          result |-> [success |-> FALSE, message |-> "not streaming",
                      device_id |-> device_id]]
    ELSE LET result == stop_result(sm[device_id])
         IN [stream_managers |->
                 IF result.success THEN MapDel(sm, device_id) ELSE sm,
             result |-> result]

\* a loop of start_streaming_all that ends at the first device that fails
RECURSIVE StartEach_stops_at_failure(_, _, _, _)
StartEach_stops_at_failure(sm, p, devices, results) ==
    IF devices = <<>> THEN [stream_managers |-> sm, result |-> results]
    ELSE LET r == start_streaming_device(sm, p, Head(devices).device_id)
             counted ==
               [results EXCEPT
                   !.started = IF r.result.success THEN @ + 1 ELSE @,
                   !.failed = IF r.result.success THEN @ ELSE @ + 1,
                   !.details = Append(@, r.result)]
         IN IF ~r.result.success
            THEN [stream_managers |-> r.stream_managers, result |-> counted]
            ELSE StartEach_stops_at_failure(r.stream_managers, p,
                                            Tail(devices), counted)

\* the loop of start_streaming_all over the remaining devices
RECURSIVE StartEach(_, _, _, _)
StartEach(sm, p, devices, results) ==
    IF devices = <<>> THEN [stream_managers |-> sm, result |-> results]
    ELSE LET r == start_streaming_device(sm, p, Head(devices).device_id)
         IN StartEach(r.stream_managers, p, Tail(devices),
               [results EXCEPT
                   !.started = IF r.result.success THEN @ + 1 ELSE @,
                   !.failed = IF r.result.success THEN @ ELSE @ + 1,
                   !.details = Append(@, r.result)])

start_streaming_all(sm, p) ==
    LET devices == get_active_devices(p)
    IN StartEach(sm, p, devices,
                 [total |-> Len(devices), started |-> 0, failed |-> 0,
                  details |-> <<>>])

\* the keys of a dict as a list
RECURSIVE Keys(_)
Keys(m) ==
    IF DOMAIN m = {} THEN <<>>
    ELSE LET k == CHOOSE x \in DOMAIN m : TRUE
         IN <<k>> \o Keys(MapDel(m, k))

\* the loop of stop_streaming_all over the remaining device_ids
RECURSIVE StopEach(_, _, _)
StopEach(sm, device_ids, results) ==
    IF device_ids = <<>> THEN [stream_managers |-> sm, result |-> results]
    ELSE LET r == stop_streaming_device(sm, Head(device_ids))
         IN StopEach(r.stream_managers, Tail(device_ids),
               [results EXCEPT
                   !.stopped = IF r.result.success THEN @ + 1 ELSE @,
                   !.failed = IF r.result.success THEN @ ELSE @ + 1,
                   !.details = Append(@, r.result)])

stop_streaming_all(sm) ==
    LET device_ids == Keys(sm)
    IN StopEach(sm, device_ids,
                [total |-> Len(device_ids), stopped |-> 0, failed |-> 0,
                 details |-> <<>>])

\* add_device_and_stream with auto_start_stream left at its default
add_device_and_stream(sm, p, device_id, device_ip, port, name, location) ==
    LET register_result ==
            register_device_result(p, device_id, device_ip, port,
                                   Some(DEFAULT_PASSWORD), name, location)
        p1 == register_device(p, device_id, device_ip, port,
                              Some(DEFAULT_PASSWORD), name, location)
        started == start_streaming_device(sm, p1, device_id)
    IN IF ~register_result.success
       THEN [stream_managers |-> sm, pool |-> p1, result |-> register_result]
       ELSE [stream_managers |-> started.stream_managers,
             pool |-> p1,
             result |-> [success |-> TRUE,
                         message |-> "Device added and streaming started",
                         device_id |-> device_id,
                         registration |-> register_result,
                         streaming |-> started.result]]

remove_device_and_stop_stream(sm, p, device_id) ==
    LET stopped == IF device_id \in DOMAIN sm
                   THEN stop_streaming_device(sm, device_id)
                   ELSE [stream_managers |-> sm, result |-> PyNone]
    IN [stream_managers |-> stopped.stream_managers,
        pool |-> unregister_device(p, device_id),
        result |-> [success |-> TRUE,
                    message |-> "Device removed and streaming stopped",
                    device_id |-> device_id,
                    streaming |-> stopped.result,
                    unregistration |-> unregister_device_result(p, device_id)]]

RECURSIVE SumOver(_, _)
SumOver(f, keys) ==
    IF keys = {} THEN 0
    ELSE LET k == CHOOSE x \in keys : TRUE
         IN f[k] + SumOver(f, keys \ {k})

\* get_all_streaming_status: status["statistics"] and status["mode"] raise
\* KeyError when the status dict has no such key
get_all_streaming_status(sm) ==
    LET statuses == [d \in DOMAIN sm |-> get_status(sm[d])]
        ids == DOMAIN statuses
    IN IF \E d \in ids : "statistics" \notin DOMAIN statuses[d]
       THEN Raised("KeyError")
       ELSE IF \E d \in ids : "mode" \notin DOMAIN statuses[d]
       THEN Raised("KeyError")
       ELSE Returned(
              [total_devices_streaming |-> Cardinality(ids),
               total_events_sent |->
                   SumOver([d \in ids |->
                              statuses[d].statistics.total_events_sent], ids),
               mode_breakdown |->
                   [m \in { statuses[d].mode : d \in ids } |->
                       Cardinality({ d \in ids : statuses[d].mode = m })],
               devices |-> statuses])

---------------------------------------------------------------------------
(* The agent: registry, coordinator, router and poller *)

RegisterPorts == { PyNone, Some(DEFAULT_PORT) }

CoordFrame ==
    /\ UNCHANGED engineVars
    /\ UNCHANGED <<poller, sent_results, clock, calls, locks>>

Register ==
    /\ \E d \in DeviceIds, port \in RegisterPorts :
          pool' = register_device(pool, d, DeviceIp(d), port,
                                  Some(DEFAULT_PASSWORD), PyNone, PyNone)
    /\ UNCHANGED <<stream_managers, last_dispatch, last_status>>
    /\ CoordFrame

\* register_device with a shared secret of the operator's choice
RegisterWith ==
    /\ \E d \in DeviceIds, password \in {PyNone, Some(1234)} :
          pool' = register_device(pool, d, DeviceIp(d), Some(4371), password,
                                  Some("Gate"), PyNone)
    /\ UNCHANGED <<stream_managers, last_dispatch, last_status>>
    /\ CoordFrame

\* DevicePoolManager() in a process started on the data.json the process
\* before it left
Reload ==
    /\ pool' = _load_devices([DevicePoolManagerInit EXCEPT
                                 !.data_file = pool.data_file])
    /\ UNCHANGED <<stream_managers, last_dispatch, last_status>>
    /\ CoordFrame

Unregister ==
    /\ \E d \in DeviceIds : pool' = unregister_device(pool, d)
    /\ UNCHANGED <<stream_managers, last_dispatch, last_status>>
    /\ CoordFrame

CStartDevice ==
    /\ \E d \in DeviceIds :
          stream_managers' =
              start_streaming_device(stream_managers, pool, d).stream_managers
    /\ UNCHANGED <<pool, last_dispatch, last_status>>
    /\ CoordFrame

CStopDevice ==
    /\ \E d \in DeviceIds :
          stream_managers' =
              stop_streaming_device(stream_managers, d).stream_managers
    /\ UNCHANGED <<pool, last_dispatch, last_status>>
    /\ CoordFrame

CStartAll ==
    /\ stream_managers' =
           start_streaming_all(stream_managers, pool).stream_managers
    /\ UNCHANGED <<pool, last_dispatch, last_status>>
    /\ CoordFrame

CStopAll ==
    /\ stream_managers' = stop_streaming_all(stream_managers).stream_managers
    /\ UNCHANGED <<pool, last_dispatch, last_status>>
    /\ CoordFrame

CAddAndStream ==
    /\ \E d \in DeviceIds, port \in RegisterPorts :
          LET r == add_device_and_stream(stream_managers, pool, d,
                                         DeviceIp(d), port, PyNone, PyNone)
          IN /\ stream_managers' = r.stream_managers
             /\ pool' = r.pool
    /\ UNCHANGED <<last_dispatch, last_status>>
    /\ CoordFrame

CRemoveAndStop ==
    /\ \E d \in DeviceIds :
          LET r == remove_device_and_stop_stream(stream_managers, pool, d)
          IN /\ stream_managers' = r.stream_managers
             /\ pool' = r.pool
    /\ UNCHANGED <<last_dispatch, last_status>>
    /\ CoordFrame

CStatus ==
    /\ last_status' = get_all_streaming_status(stream_managers)
    /\ UNCHANGED <<pool, stream_managers, last_dispatch>>
    /\ CoordFrame

\* a step of the thread of one of the coordinator's engines; the terminal
\* and the server answer
CThread ==
    /\ \E d \in DOMAIN stream_managers, t \in ThreadIds :
          \E s2 \in ThreadSuccessors(stream_managers[d], t,
                        raw_logs[TerminalAt(stream_managers[d].device_ip)],
                        UpResponses, {TRUE}) :
              stream_managers' = [stream_managers EXCEPT ![d] = s2]
    /\ UNCHANGED <<pool, last_dispatch, last_status>>
    /\ CoordFrame

\* a step of the thread of one of the coordinator's engines in which the
\* terminal fails
CThreadDeviceFailure ==
    /\ \E d \in DOMAIN stream_managers, t \in ThreadIds :
          /\ CallsTerminal(stream_managers[d], t)
          /\ \E s2 \in ThreadSuccessors(stream_managers[d], t,
                        raw_logs[TerminalAt(stream_managers[d].device_ip)],
                        UpResponses, {FALSE}) :
                 stream_managers' = [stream_managers EXCEPT ![d] = s2]
    /\ DeviceFails
    /\ UNCHANGED <<eng, server_up, outages, raw_logs, delivered, read_events>>
    /\ UNCHANGED <<pool, last_dispatch, last_status>>
    /\ UNCHANGED <<poller, sent_results, clock, calls, locks>>

Command(name, params) == [id |-> "cmd", command |-> name, params |-> params]

DeviceCommand(name, target, params) ==
    [id |-> "cmd", command |-> name, device_id |-> target, params |-> params]

\* the commands that change or list the registry
RegistryCommands ==
    { Command("register_device",
              [device_id |-> d, device_ip |-> DeviceIp(d)]) : d \in DeviceIds }
    \cup { Command("unregister_device", [device_id |-> d]) : d \in DeviceIds }
    \cup { Command("list_devices", EmptyMap),
           Command("unregister_device", EmptyMap) }

HealthCommands ==
    { Command("device_health", [device_id |-> d]) : d \in DeviceIds }

Targets == { "device_001", DeviceIp("device_001"), NoString }

\* the commands that go to a terminal, with and without their parameters,
\* and names the router does not know
TerminalCommands ==
    { DeviceCommand(c, target, EmptyMap) :
          c \in {"get_users", "get_attendance", "get_device_info",
                 "create_user", "reboot", NoString},
          target \in Targets }
    \cup { DeviceCommand("create_user", "device_001",
                         [user_id |-> "1002", name |-> "Ravi"]),
           DeviceCommand("delete_user", "device_001", [uid |-> 1]),
           DeviceCommand("get_attendance", "device_001", [limit |-> Some(1)]),
           DeviceCommand("get_users", "device_001",
                         [operation |-> "get_users"]),
           [id |-> "cmd", command |-> "get_users",
            device_ip |-> DeviceIp("device_001")] }

\* the router called with a registry command while the coordinator works;
\* these commands reach no terminal
Dispatch ==
    /\ \E cmd \in RegistryCommands :
          LET ex == execute_command(pool, cmd, Healthy, raw_logs, clock)
          IN /\ pool' = ex.pool
             /\ last_dispatch' = ex.out
    /\ UNCHANGED <<stream_managers, last_status>>
    /\ CoordFrame

\* the router called with a command for a terminal, or a health check, while
\* the terminal behaves as dev
Execute ==
    /\ \E cmd \in TerminalCommands \cup HealthCommands,
          dev \in DeviceBehaviours :
          LET ex == execute_command(pool, cmd, dev, raw_logs, clock)
          IN /\ pool' = ex.pool
             /\ last_dispatch' = ex.out
    /\ UNCHANGED <<stream_managers, last_status>>
    /\ CoordFrame

PollFrame ==
    /\ UNCHANGED engineVars
    /\ UNCHANGED <<stream_managers, last_status, calls, locks>>

\* PollingService.start() up to the loop, called once as the application
\* does at startup; a call on a running poller returns at once
PollerStart ==
    /\ ~poller.is_running
    /\ poller.loops = 0 /\ poller.stats.total_polls = 0
    /\ poller' = [poller EXCEPT !.is_running = TRUE, !.loops = 1]
    /\ UNCHANGED <<pool, last_dispatch, sent_results, clock>>
    /\ PollFrame

\* start() called again on a poller that stop() was called on, whether or
\* not the loop of the earlier call has seen the flag
PollerRestart ==
    /\ ~poller.is_running
    /\ poller.loops >= 1 \/ poller.stats.total_polls > 0
    /\ poller.loops < MaxLoops
    /\ poller' = [poller EXCEPT !.is_running = TRUE, !.loops = @ + 1]
    /\ UNCHANGED <<pool, last_dispatch, sent_results, clock>>
    /\ PollFrame

\* a loop wakes from its sleep, finds the flag cleared and start() returns
PollerExit ==
    /\ poller.loops >= 1
    /\ ~poller.is_running
    /\ poller' = [poller EXCEPT !.loops = @ - 1]
    /\ UNCHANGED <<pool, last_dispatch, sent_results, clock>>
    /\ PollFrame

PollerStop ==
    /\ poller' = [poller EXCEPT !.is_running = FALSE]
    /\ UNCHANGED <<pool, last_dispatch, sent_results, clock>>
    /\ PollFrame

FetchResponses ==
    { HttpResponse(c, PyNone) : c \in {204, 404, 500} }
    \cup { HttpResponse(200, PyDict([data |-> Some(PyDict(cmd))])) :
               cmd \in RegistryCommands \cup HealthCommands
                           \cup TerminalCommands }
    \cup { HttpResponse(200, PyDict([data |-> PyNone])),
           HttpResponse(200, PyDict([data |-> Some(PyDict(EmptyMap))])),
           HttpResponse(200, PyDict([data |-> Some(PyList(<<"reboot">>))])),
           HttpResponse(200, PyList(<<>>)),
           ConnectError }

SendResponses == { HttpResponse(200, PyNone), HttpResponse(500, PyNone),
                   ConnectError }

\* one iteration of the polling loop: the test of the flag, the poll cycle
\* and the sleep
Poll ==
    /\ poller.is_running /\ poller.loops >= 1
    /\ poller.stats.total_polls < MaxPolls
    /\ \E fetch \in FetchResponses, dev \in DeviceBehaviours,
          send \in SendResponses :
          LET r == _poll_cycle(poller, pool, fetch, dev, send, raw_logs,
                               clock)
          IN /\ poller' = r.poller
             /\ pool' = r.pool
             /\ last_dispatch' = IF r.dispatch.called THEN r.dispatch
                                 ELSE last_dispatch
             /\ sent_results' = IF r.sent = PyNone THEN sent_results
                                ELSE Append(sent_results, r.sent[1])
    /\ UNCHANGED clock
    /\ PollFrame

\* one iteration of the polling loop in which the server is unreachable,
\* has no command, or sends a command the router fails on, raises on or
\* cannot read
PollFaults ==
    /\ poller.is_running /\ poller.loops >= 1
    /\ poller.stats.total_polls < MaxPolls
    /\ \E fetch \in { ConnectError, HttpResponse(204, PyNone),
                       HttpResponse(200, PyList(<<>>)) }
                     \cup { HttpResponse(200, PyDict([data |-> Some(c)])) :
                              c \in { PyDict(Command("list_devices", EmptyMap)),
                                      PyDict(DeviceCommand("reboot",
                                                 "device_001", EmptyMap)),
                                      PyDict(DeviceCommand("get_users",
                                                 "device_001", EmptyMap)),
                                      PyList(<<"reboot">>) } },
          send \in SendResponses :
          LET r == _poll_cycle(poller, pool, fetch, Healthy, send, raw_logs,
                               clock)
          IN /\ poller' = r.poller
             /\ pool' = r.pool
             /\ last_dispatch' = IF r.dispatch.called THEN r.dispatch
                                 ELSE last_dispatch
             /\ sent_results' = IF r.sent = PyNone THEN sent_results
                                ELSE Append(sent_results, r.sent[1])
    /\ UNCHANGED clock
    /\ PollFrame

Tick ==
    /\ clock < MaxClock
    /\ clock' = clock + 1
    /\ UNCHANGED <<pool, poller, last_dispatch, sent_results>>
    /\ PollFrame

---------------------------------------------------------------------------
(* Threads inside the registry and the coordinator.  The thread of a       *)
(* caller is a stack of method frames; a method is cut into steps at every *)
(* acquisition of a lock and at every device I/O call.                     *)

\* a method called for device d, about to run its first statement; core is
\* the capability the method has looked up: the one in the registry
\* ("pool"), a temporary one ("temp") or one the registry has dropped
\* since ("detached"), whose connection flag is then conn
Frame(m, d) ==
    [m |-> m, pc |-> "begin", d |-> d, rest |-> <<>>, core |-> "none",
     conn |-> FALSE]

Idle(c) == calls[c] = <<>>
Top(c) == calls[c][Len(calls[c])]
In(c, m, pc) == ~Idle(c) /\ Top(c).m = m /\ Top(c).pc = pc

\* the stacks after the method c runs moves to pc, returns, or calls m
Moved(c, pc) == [calls EXCEPT ![c][Len(calls[c])].pc = pc]
Left(c) == [calls EXCEPT ![c] = SubSeq(@, 1, Len(@) - 1)]
Entered(cs, c, pc, m, d) ==
    [cs EXCEPT ![c] = Append([@ EXCEPT ![Len(@)].pc = pc], Frame(m, d))]

\* with self.lock: a threading.Lock is not reentrant
Acquire(lock, c) ==
    /\ locks[lock] = Free
    /\ locks' = [locks EXCEPT ![lock] = c]
Release(lock) == locks' = [locks EXCEPT ![lock] = Free]

\* the capability a frame holds
CoreOf(f) ==
    IF f.core = "pool" THEN pool.device_cores[f.d]
    ELSE [ESSLDeviceCore(IF f.core = "temp" THEN f.d ELSE DeviceIp(f.d),
                         DEFAULT_PORT, DEFAULT_PASSWORD)
             EXCEPT !.conn = f.conn]

\* the frames that hold the capability of d once the registry has dropped it
Detach(cs, d) ==
    [c \in Callers |->
        [i \in 1..Len(cs[c]) |->
            IF cs[c][i].core = "pool" /\ cs[c][i].d = d
            THEN [cs[c][i] EXCEPT !.core = "detached",
                                  !.conn = pool.device_cores[d].conn]
            ELSE cs[c][i]]]

\* the capability of the method c runs becomes core and the method moves
\* to pc, or returns when pc is "return"
WithCore(c, core, pc) ==
    LET cs == IF pc = "return" THEN Left(c) ELSE Moved(c, pc)
    IN IF Top(c).core = "pool"
       THEN /\ pool' = [pool EXCEPT !.device_cores[Top(c).d] = core]
            /\ calls' = cs
       ELSE /\ pool' = pool
            /\ calls' = IF pc = "return" THEN cs
                        ELSE [cs EXCEPT ![c][Len(cs[c])].conn = core.conn]

LockFrame ==
    /\ UNCHANGED engineVars
    /\ UNCHANGED <<last_dispatch, last_status, poller, sent_results, clock>>

RegistryMethods ==
    {"register_device", "unregister_device", "get_device_info",
     "list_devices", "execute_on_device", "check_device_health",
     "cleanup_inactive_devices"}

\* the device the calling threads contend for
CallDevices == {"device_001"}

\* a thread calls a method of the registry
CallRegistry ==
    /\ \E c \in Callers, m \in RegistryMethods, d \in CallDevices :
          /\ Idle(c)
          /\ calls' = [calls EXCEPT ![c] = <<Frame(m, d)>>]
    /\ UNCHANGED <<locks, pool, stream_managers>>
    /\ LockFrame

\* a thread calls register_device or unregister_device for any device
CallMutation ==
    /\ \E c \in Callers, d \in DeviceIds,
          m \in {"register_device", "unregister_device"} :
          /\ Idle(c)
          /\ calls' = [calls EXCEPT ![c] = <<Frame(m, d)>>]
    /\ UNCHANGED <<locks, pool, stream_managers>>
    /\ LockFrame

\* the agent is started again: DevicePoolManager() loads data.json before
\* any thread can call the registry
Startup ==
    /\ \A c \in Callers : Idle(c)
    /\ Reload

\* register_device: everything happens under the lock
RegisterDevice ==
    /\ \E c \in Callers :
          \/ /\ In(c, "register_device", "begin")
             /\ Acquire("registry", c)
             /\ calls' = Moved(c, "locked")
             /\ UNCHANGED pool
          \/ /\ In(c, "register_device", "locked")
             /\ pool' = register_device(pool, Top(c).d, DeviceIp(Top(c).d),
                                        PyNone, PyNone, PyNone, PyNone)
             /\ Release("registry")
             /\ calls' = Left(c)
    /\ UNCHANGED stream_managers
    /\ LockFrame

\* unregister_device: under the lock the capability is disconnected, the
\* capability and the record are deleted and the file is rewritten
UnregisterDevice ==
    /\ \E c \in Callers :
          \/ /\ In(c, "unregister_device", "begin")
             /\ Acquire("registry", c)
             /\ calls' = Moved(c, "locked")
             /\ UNCHANGED pool
          \/ /\ In(c, "unregister_device", "locked")
             /\ IF Top(c).d \in DOMAIN pool.devices
                THEN calls' = Moved(c, "disconnect") /\ UNCHANGED locks
                ELSE calls' = Left(c) /\ Release("registry")
             /\ UNCHANGED pool
          \/ /\ In(c, "unregister_device", "disconnect")
             /\ pool' = [pool EXCEPT
                            !.device_cores[Top(c).d] = disconnect(@)]
             /\ calls' = Moved(c, "remove")
             /\ UNCHANGED locks
          \/ /\ In(c, "unregister_device", "remove")
             /\ pool' = unregister_device(pool, Top(c).d)
             /\ calls' = Detach(Left(c), Top(c).d)
             /\ Release("registry")
    /\ UNCHANGED stream_managers
    /\ LockFrame

\* get_device_info and list_devices: a snapshot taken under the lock
Lookup ==
    /\ \E c \in Callers, m \in {"get_device_info", "list_devices"} :
          \/ /\ In(c, m, "begin")
             /\ Acquire("registry", c)
             /\ calls' = Moved(c, "locked")
          \/ /\ In(c, m, "locked")
             /\ Release("registry")
             /\ calls' = Left(c)
    /\ UNCHANGED <<pool, stream_managers>>
    /\ LockFrame

\* with device_core.connection(): connect, the operation, _update_last_seen
\* and the disconnect of the finally clause, for the method c runs
Session(c) ==
    \/ /\ Top(c).pc = "connect"
       /\ \E dev \in {Healthy, Behaviour(TRUE, FALSE, FALSE)} :
             LET r == connect(CoreOf(Top(c)), dev)
             IN WithCore(c, r.core, IF r.raised THEN "return" ELSE "operate")
       /\ UNCHANGED locks
    \/ /\ Top(c).pc = "operate"
       /\ \E ok \in BOOLEAN :
             calls' = Moved(c, IF CoreOf(Top(c)).conn /\ ok THEN "touch"
                               ELSE "disconnect")
       /\ UNCHANGED <<pool, locks>>
    \/ /\ Top(c).pc = "touch"
       /\ Acquire("registry", c)
       /\ calls' = Moved(c, "touch_locked")
       /\ UNCHANGED pool
    \/ /\ Top(c).pc = "touch_locked"
       /\ pool' = _update_last_seen(pool, Top(c).d, clock)
       /\ Release("registry")
       /\ calls' = Moved(c, "disconnect")
    \/ /\ Top(c).pc = "disconnect"
       /\ WithCore(c, disconnect(CoreOf(Top(c))), "return")
       /\ UNCHANGED locks

\* execute_on_device called with a device_id: the capability is looked up
\* under the lock, the session runs outside it
ExecuteOnDevice ==
    /\ \E c \in Callers :
          /\ ~Idle(c) /\ Top(c).m = "execute_on_device"
          /\ \/ /\ Top(c).pc = "begin"
                /\ calls' = Moved(c, IF Top(c).d \in DOMAIN pool.devices
                                     THEN "get_core" ELSE "get_core_by_ip")
                /\ UNCHANGED <<pool, locks>>
             \/ /\ Top(c).pc \in {"get_core", "get_core_by_ip"}
                /\ Acquire("registry", c)
                /\ calls' = Moved(c, IF Top(c).pc = "get_core"
                                     THEN "core_locked" ELSE "by_ip_locked")
                /\ UNCHANGED pool
             \/ /\ Top(c).pc = "core_locked"
                /\ Release("registry")
                /\ calls' =
                      IF get_device_core(pool, Top(c).d) = PyNone
                      THEN Left(c)
                      ELSE [Moved(c, "connect") EXCEPT
                               ![c][Len(calls[c])].core = "pool"]
                /\ UNCHANGED pool
             \/ /\ Top(c).pc = "by_ip_locked"
                /\ Release("registry")
                /\ calls' = [Moved(c, "connect") EXCEPT
                                ![c][Len(calls[c])].core = "temp"]
                /\ UNCHANGED pool
             \/ Session(c)
    /\ UNCHANGED stream_managers
    /\ LockFrame

\* check_device_health: two lookups under the lock, then is_online and the
\* session outside it
CheckDeviceHealth ==
    /\ \E c \in Callers :
          /\ ~Idle(c) /\ Top(c).m = "check_device_health"
          /\ \/ /\ Top(c).pc \in {"begin", "info"}
                /\ Acquire("registry", c)
                /\ calls' = Moved(c, IF Top(c).pc = "begin"
                                     THEN "core_locked" ELSE "info_locked")
                /\ UNCHANGED pool
             \/ /\ Top(c).pc = "core_locked"
                /\ Release("registry")
                /\ calls' =
                      [Moved(c, "info") EXCEPT
                          ![c][Len(calls[c])].core =
                              IF get_device_core(pool, Top(c).d) = PyNone
                              THEN "none" ELSE "pool"]
                /\ UNCHANGED pool
             \/ /\ Top(c).pc = "info_locked"
                /\ Release("registry")
                /\ calls' =
                      IF Top(c).core = "none"
                         \/ get_device_info(pool, Top(c).d) = PyNone
                      THEN Left(c) ELSE Moved(c, "online")
                /\ UNCHANGED pool
             \/ /\ Top(c).pc = "online"
                /\ \E is_online \in BOOLEAN :
                      calls' = IF is_online THEN Moved(c, "connect")
                               ELSE Left(c)
                /\ UNCHANGED <<pool, locks>>
             \/ Session(c)
    /\ UNCHANGED stream_managers
    /\ LockFrame

\* the devices cleanup_inactive_devices collects in to_remove
InactiveDevices(p, now, inactive_hours) ==
    SelectSeq(p.order,
              LAMBDA d : /\ p.devices[d].last_seen # PyNone
                         /\ p.devices[d].last_seen[1] < now - inactive_hours)

\* cleanup_inactive_devices: to_remove is collected under the lock, and
\* under the same lock unregister_device is called for each of its entries
CleanupInactiveDevices ==
    /\ \E c \in Callers :
          \/ /\ In(c, "cleanup_inactive_devices", "begin")
             /\ Acquire("registry", c)
             /\ calls' = Moved(c, "locked")
          \/ /\ In(c, "cleanup_inactive_devices", "locked")
             /\ \E inactive_hours \in {0, 1} :
                   calls' = [Moved(c, "loop") EXCEPT
                                ![c][Len(calls[c])].rest =
                                    InactiveDevices(pool, clock,
                                                    inactive_hours)]
             /\ UNCHANGED locks
          \/ /\ In(c, "cleanup_inactive_devices", "loop")
             /\ IF Top(c).rest = <<>>
                THEN calls' = Left(c) /\ Release("registry")
                ELSE /\ calls' =
                          Entered([calls EXCEPT
                                      ![c][Len(calls[c])].rest = Tail(@)],
                                  c, "loop", "unregister_device",
                                  Head(Top(c).rest))
                     /\ UNCHANGED locks
    /\ UNCHANGED <<pool, stream_managers>>
    /\ LockFrame

CoordinatorMethods ==
    {"start_streaming_device", "stop_streaming_device",
     "start_streaming_all", "stop_streaming_all", "get_all_streaming_status",
     "add_device_and_stream", "remove_device_and_stop_stream"}

\* the registry methods the router and the endpoints call beside the
\* coordinator
SharedRegistryMethods ==
    {"register_device", "unregister_device", "get_device_info",
     "list_devices", "execute_on_device", "check_device_health"}

\* a thread calls a method of the coordinator or of the registry
CallCoordinator ==
    /\ \E c \in Callers, d \in CallDevices,
          m \in CoordinatorMethods \cup SharedRegistryMethods :
          /\ Idle(c)
          /\ calls' = [calls EXCEPT ![c] = <<Frame(m, d)>>]
    /\ UNCHANGED <<locks, pool, stream_managers>>
    /\ LockFrame

\* start_streaming_device: under the coordinator lock the map is tested,
\* get_device_info takes and releases the registry lock, and the engine is
\* made, started and stored
StartStreamingDevice ==
    /\ \E c \in Callers :
          \/ /\ In(c, "start_streaming_device", "begin")
             /\ Acquire("coordinator", c)
             /\ calls' = Moved(c, "locked")
             /\ UNCHANGED stream_managers
          \/ /\ In(c, "start_streaming_device", "locked")
             /\ IF Top(c).d \in DOMAIN stream_managers
                THEN calls' = Left(c) /\ Release("coordinator")
                ELSE calls' = Moved(c, "get_device_info") /\ UNCHANGED locks
             /\ UNCHANGED stream_managers
          \/ /\ In(c, "start_streaming_device", "get_device_info")
             /\ Acquire("registry", c)
             /\ calls' = Moved(c, "info_locked")
             /\ UNCHANGED stream_managers
          \/ /\ In(c, "start_streaming_device", "info_locked")
             /\ Release("registry")
             /\ stream_managers' =
                   start_streaming_device(stream_managers, pool,
                                          Top(c).d).stream_managers
             /\ calls' = Moved(c, "started")
          \/ /\ In(c, "start_streaming_device", "started")
             /\ Release("coordinator")
             /\ calls' = Left(c)
             /\ UNCHANGED stream_managers
    /\ UNCHANGED pool
    /\ LockFrame

\* stop_streaming_device: stop() and its join run under the coordinator
\* lock
StopStreamingDevice ==
    /\ \E c \in Callers :
          \/ /\ In(c, "stop_streaming_device", "begin")
             /\ Acquire("coordinator", c)
             /\ calls' = Moved(c, "locked")
             /\ UNCHANGED stream_managers
          \/ /\ In(c, "stop_streaming_device", "locked")
             /\ stream_managers' =
                   stop_streaming_device(stream_managers,
                                         Top(c).d).stream_managers
             /\ Release("coordinator")
             /\ calls' = Left(c)
    /\ UNCHANGED pool
    /\ LockFrame

\* the device_ids of a list of device dicts
DeviceIdsOf(devices) == [i \in 1..Len(devices) |-> devices[i].device_id]

\* start_streaming_all: get_active_devices under the registry lock, then
\* start_streaming_device for each device with no lock held
StartStreamingAll ==
    /\ \E c \in Callers :
          \/ /\ In(c, "start_streaming_all", "begin")
             /\ Acquire("registry", c)
             /\ calls' = Moved(c, "locked")
          \/ /\ In(c, "start_streaming_all", "locked")
             /\ Release("registry")
             /\ calls' = [Moved(c, "loop") EXCEPT
                             ![c][Len(calls[c])].rest =
                                 DeviceIdsOf(get_active_devices(pool))]
          \/ /\ In(c, "start_streaming_all", "loop")
             /\ calls' =
                   IF Top(c).rest = <<>> THEN Left(c)
                   ELSE Entered([calls EXCEPT
                                    ![c][Len(calls[c])].rest = Tail(@)],
                                c, "loop", "start_streaming_device",
                                Head(Top(c).rest))
             /\ UNCHANGED locks
    /\ UNCHANGED <<pool, stream_managers>>
    /\ LockFrame

\* a stop_streaming_all whose loop runs inside the with block
StopStreamingAll_loop_under_lock ==
    /\ \E c \in Callers :
          \/ /\ In(c, "stop_streaming_all", "begin")
             /\ Acquire("coordinator", c)
             /\ calls' = Moved(c, "locked")
          \/ /\ In(c, "stop_streaming_all", "locked")
             /\ UNCHANGED locks
             /\ calls' = [Moved(c, "loop") EXCEPT
                             ![c][Len(calls[c])].rest = Keys(stream_managers)]
          \/ /\ In(c, "stop_streaming_all", "loop")
             /\ IF Top(c).rest = <<>>
                THEN calls' = Left(c) /\ Release("coordinator")
                ELSE /\ calls' =
                          Entered([calls EXCEPT
                                      ![c][Len(calls[c])].rest = Tail(@)],
                                  c, "loop", "stop_streaming_device",
                                  Head(Top(c).rest))
                     /\ UNCHANGED locks
    /\ UNCHANGED <<pool, stream_managers>>
    /\ LockFrame

\* stop_streaming_all: the keys are listed under the coordinator lock, then
\* stop_streaming_device is called for each with no lock held
StopStreamingAll ==
    /\ \E c \in Callers :
          \/ /\ In(c, "stop_streaming_all", "begin")
             /\ Acquire("coordinator", c)
             /\ calls' = Moved(c, "locked")
          \/ /\ In(c, "stop_streaming_all", "locked")
             /\ Release("coordinator")
             /\ calls' = [Moved(c, "loop") EXCEPT
                             ![c][Len(calls[c])].rest = Keys(stream_managers)]
          \/ /\ In(c, "stop_streaming_all", "loop")
             /\ calls' =
                   IF Top(c).rest = <<>> THEN Left(c)
                   ELSE Entered([calls EXCEPT
                                    ![c][Len(calls[c])].rest = Tail(@)],
                                c, "loop", "stop_streaming_device",
                                Head(Top(c).rest))
             /\ UNCHANGED locks
    /\ UNCHANGED <<pool, stream_managers>>
    /\ LockFrame

\* get_all_streaming_status: get_status of every engine under the
\* coordinator lock, the aggregation after it
StreamingStatus ==
    /\ \E c \in Callers :
          \/ /\ In(c, "get_all_streaming_status", "begin")
             /\ Acquire("coordinator", c)
             /\ calls' = Moved(c, "locked")
             /\ UNCHANGED last_status
          \/ /\ In(c, "get_all_streaming_status", "locked")
             /\ Release("coordinator")
             /\ last_status' = get_all_streaming_status(stream_managers)
             /\ calls' = Left(c)
    /\ UNCHANGED <<pool, stream_managers>>
    /\ UNCHANGED engineVars
    /\ UNCHANGED <<last_dispatch, poller, sent_results, clock>>

\* add_device_and_stream: register_device, and start_streaming_device when
\* the device was registered
AddDeviceAndStream ==
    /\ \E c \in Callers :
          \/ /\ In(c, "add_device_and_stream", "begin")
             /\ Acquire("registry", c)
             /\ calls' = Moved(c, "locked")
             /\ UNCHANGED pool
          \/ /\ In(c, "add_device_and_stream", "locked")
             /\ pool' = register_device(pool, Top(c).d, DeviceIp(Top(c).d),
                                        Some(DEFAULT_PORT), PyNone, PyNone,
                                        PyNone)
             /\ Release("registry")
             /\ calls' =
                   IF Top(c).d \in DOMAIN pool.devices THEN Left(c)
                   ELSE Entered(calls, c, "streaming",
                                "start_streaming_device", Top(c).d)
          \/ /\ In(c, "add_device_and_stream", "streaming")
             /\ calls' = Left(c)
             /\ UNCHANGED <<pool, locks>>
    /\ UNCHANGED stream_managers
    /\ LockFrame

\* remove_device_and_stop_stream: the map is read without the lock, then
\* stop_streaming_device and unregister_device are called in turn
RemoveDeviceAndStopStream ==
    /\ \E c \in Callers :
          \/ /\ In(c, "remove_device_and_stop_stream", "begin")
             /\ calls' =
                   IF Top(c).d \in DOMAIN stream_managers
                   THEN Entered(calls, c, "unregister",
                                "stop_streaming_device", Top(c).d)
                   ELSE Moved(c, "unregister")
          \/ /\ In(c, "remove_device_and_stop_stream", "unregister")
             /\ calls' = Entered(calls, c, "unregistered",
                                 "unregister_device", Top(c).d)
          \/ /\ In(c, "remove_device_and_stop_stream", "unregistered")
             /\ calls' = Left(c)
    /\ UNCHANGED <<pool, stream_managers, locks>>
    /\ LockFrame

\* the lock the next statement of the thread of caller c acquires
Wants(c) ==
    IF Idle(c) THEN "none"
    ELSE LET m == Top(c).m
             pc == Top(c).pc
         IN IF \/ pc = "begin" /\ m \in {"start_streaming_device",
                                          "stop_streaming_device",
                                          "stop_streaming_all",
                                          "get_all_streaming_status"}
            THEN "coordinator"
            ELSE IF \/ pc = "begin" /\ m \in {"register_device",
                                               "unregister_device",
                                               "get_device_info",
                                               "list_devices",
                                               "check_device_health",
                                               "cleanup_inactive_devices",
                                               "start_streaming_all",
                                               "add_device_and_stream"}
                    \/ pc \in {"get_core", "get_core_by_ip", "info", "touch",
                               "get_device_info"}
            THEN "registry"
            ELSE "none"

AgentInit ==
    /\ pool = DevicePoolManagerInit
    /\ stream_managers = EmptyMap
    /\ last_dispatch = NotCalled
    /\ last_status = NotCalled
    /\ poller = PollingServiceInit
    /\ sent_results = <<>>
    /\ clock = 1
    /\ calls = [c \in Callers |-> <<>>]
    /\ locks = [registry |-> Free, coordinator |-> Free]

EngineInit ==
    /\ eng = StreamManagerInit("device_001", DeviceIp("device_001"))
    /\ server_up = TRUE
    /\ outages = 0
    /\ dev_failures = 0
    /\ raw_logs \in [DeviceIds -> RawLogChoices]
    /\ raw_logs["device_001"] # <<>>
    /\ \A d \in DeviceIds : d # "device_001" => raw_logs[d] = <<>>
    /\ delivered = {}
    /\ read_events = {}

Init == EngineInit /\ AgentInit

EngineNext ==
    \/ Start \/ StopBegin \/ StopFinish
    \/ ThreadStep \/ ThreadDeviceFailure

\* one engine, its threads and a terminal that may fail; the server is up
SpecEngine == Init /\ [][EngineNext]_vars

\* the scheduler runs the engine's thread whenever it can take a step
SpecEngineFair == SpecEngine /\ WF_vars(ThreadStep)

\* one engine started, stopped and started again, and its threads; the
\* terminal and the server answer
SpecLifecycle ==
    Init /\ [][Start \/ StopBegin \/ StopFinish \/ Restart \/ ThreadStep]_vars

\* one engine started, stopped and started again; its threads run statement
\* by statement around the delivery of an event
SpecCounters ==
    Init /\ [][Start \/ StopBegin \/ StopFinish \/ Restart
                 \/ ThreadStatement]_vars

DeliveryNext ==
    \/ Start \/ StopBegin \/ StopFinish
    \/ ServerDown \/ ServerUp
    \/ ThreadStep \/ ThreadDeviceFailure

\* one engine, its threads, a terminal that may fail and a server that may
\* be down
SpecDelivery == Init /\ [][DeliveryNext]_vars

\* the scheduler runs every thread that can take a step, and the outage ends
SpecDeliveryFair ==
    SpecDelivery /\ WF_vars(ThreadStep) /\ WF_vars(ServerUp)

\* one run of an engine against a terminal that may fail and a server that
\* may go down; the scheduler runs the thread whenever it can take a step,
\* and the join of stop() ends with the thread or with its timeout
SpecStopFair ==
    /\ Init
    /\ [][Start \/ StopBegin \/ StopFinish \/ ServerDown \/ ThreadStep
             \/ ThreadDeviceFailure]_vars
    /\ WF_vars(ThreadStep) /\ WF_vars(StopFinish)

CoordNext ==
    \/ Register \/ Unregister \/ Dispatch
    \/ CStartDevice \/ CStopDevice \/ CStartAll \/ CStopAll
    \/ CAddAndStream \/ CRemoveAndStop \/ CStatus \/ CThread

\* the registry, the coordinator with its engines, and the router called
\* with registry commands
SpecCoord == Init /\ [][CoordNext]_vars

\* the coordinator with engines whose terminals may fail
SpecCoordFaults ==
    Init /\ [][Register \/ CStartDevice \/ CStopDevice \/ CStartAll
                 \/ CThread \/ CThreadDeviceFailure]_vars

\* the coordinator starting and stopping engines whose terminals may fail
SpecCoordStop ==
    Init /\ [][Register \/ CStartDevice \/ CStopDevice \/ CStopAll
                 \/ CThread \/ CThreadDeviceFailure]_vars

\* the router and the registry, called with every command while the clock
\* advances
SpecRouter ==
    Init /\ [][Register \/ Unregister \/ Dispatch \/ Execute \/ Tick]_vars

\* the router called with commands for terminals of a registry that grows
SpecExecute == Init /\ [][Register \/ Execute]_vars

PollerNext ==
    \/ PollerStart \/ PollerStop \/ PollerExit \/ Poll \/ Tick

\* the registry of one process after another: devices are registered and
\* removed, commands run on them, and the agent is started again on the
\* file it wrote
SpecRegistry ==
    Init /\ [][RegisterWith \/ Unregister \/ Execute \/ Reload]_vars

\* threads that call the registry at the same time while the clock advances
SpecRegistryLocks ==
    Init /\ [][CallRegistry \/ RegisterDevice \/ UnregisterDevice \/ Lookup
                 \/ ExecuteOnDevice \/ CheckDeviceHealth
                 \/ CleanupInactiveDevices \/ Tick]_vars

\* a step of the thread of caller c inside the registry
CallerStep(c) ==
    /\ RegisterDevice \/ UnregisterDevice \/ Lookup \/ ExecuteOnDevice
          \/ CheckDeviceHealth \/ CleanupInactiveDevices
    /\ calls'[c] # calls[c]

\* every thread is scheduled again and again, and a thread that waits for
\* a lock gets it when the lock is released often enough
SpecRegistryLocksFair ==
    SpecRegistryLocks /\ \A c \in Callers : SF_vars(CallerStep(c))

\* threads that call the coordinator and the registry at the same time
SpecLocks ==
    Init /\ [][CallCoordinator \/ StartStreamingDevice
                 \/ StopStreamingDevice \/ StartStreamingAll
                 \/ StopStreamingAll \/ StreamingStatus
                 \/ AddDeviceAndStream \/ RemoveDeviceAndStopStream
                 \/ RegisterDevice \/ UnregisterDevice \/ Lookup
                 \/ ExecuteOnDevice \/ CheckDeviceHealth]_vars

\* an engine whose thread logs one error after another
SpecErrorRing == Init /\ [][Start \/ LogErrorAppend \/ LogErrorTrim]_vars

\* threads that register and unregister devices at the same time, and the
\* agent started again on the file they wrote
SpecRegistryMutations ==
    Init /\ [][CallMutation \/ RegisterDevice \/ UnregisterDevice
                 \/ Startup]_vars

\* the poller, the router and the registry
SpecPoller == Init /\ [][PollerNext]_vars

\* the polling loop of one start() with a server and commands that fail;
\* the event loop resumes a coroutine whose sleep has ended
SpecPollerLoop ==
    /\ Init
    /\ [][PollerStart \/ PollerStop \/ PollerExit \/ PollFaults]_vars
    /\ WF_vars(PollFaults) /\ WF_vars(PollerExit)

\* the poller started, stopped and started again
SpecPollerRestart ==
    Init /\ [][PollerStart \/ PollerStop \/ PollerRestart \/ PollerExit
                 \/ PollFaults]_vars

---------------------------------------------------------------------------
(* Claims about one StreamManager *)

PossibleEvents ==
    UNION { SeqToSet(r) : r \in RawLogChoices }
        \cup { LiveEvent(n) : n \in 1..MaxLive }

Delivered(e) == \E p \in delivered : p.event_data = e

\* C1: every event a running engine has read from its device is eventually
\* delivered to the server, unless the engine is stopped; the server
\* eventually accepts POSTs (its outages end)
C1_AtLeastOnce ==
    \A e \in PossibleEvents :
        [](e \in read_events => <>(Delivered(e) \/ ~eng.is_running))

\* the mode changes the sequence Initializing, Syncing, Live,
\* (Reconnecting, Live)*, Stopped|Error and its subsequences allow
AllowedModeSteps ==
    ({"initializing"} \X {"syncing", "live", "reconnecting", "stopped", "error"})
    \cup ({"syncing"} \X {"live", "reconnecting", "stopped", "error"})
    \cup ({"live"} \X {"reconnecting", "stopped", "error"})
    \cup ({"reconnecting"} \X {"live", "stopped", "error"})

\* C2: over one run the engine's state only moves along Initializing,
\* Syncing, Live, (Reconnecting, Live)*, Stopped|Error: every Reconnecting is
\* followed by Live, Stopped or Error and nothing follows Stopped or Error
C2_ModeSequence ==
    [][eng'.mode # eng.mode => <<eng.mode, eng'.mode>> \in AllowedModeSteps]_vars

\* C3: a running engine never has a live event in delivery while its state
\* is Reconnecting: after a successful reconnection the state is Live again
\* before live events are consumed
C3_LiveAfterReconnect ==
    \A t \in ThreadIds :
        (eng.is_running /\ At(eng, t, "post")
            /\ eng.threads[t].etype = "realtime")
        => eng.mode # "reconnecting"

\* thread t attempts a device connection in this step
ConnectAttempt(t) ==
    /\ eng.threads[t].pc \in {"sync_connect", "live_connect", "reconn_connect"}
    /\ ~eng.conn
    /\ eng'.threads[t] # eng.threads[t]

\* C4: once the state is Error (all 3 connect attempts of a reconnection
\* failed) the engine halts: until it is stopped, its state stays Error and
\* its thread attempts no connection
C4_ErrorHalts ==
    [][(eng.mode = "error" /\ eng.is_running /\ eng'.is_running)
        => (eng'.mode = "error" /\ \A t \in ThreadIds : ~ConnectAttempt(t))]_vars

\* thread t makes one POST attempt in this step
PostStep(t) ==
    At(eng, t, "post") /\ eng'.threads[t] # eng.threads[t]

PostCallReturned(t) == eng'.threads[t].pc \in {"sync_loop", "live_capture"}

SameCounters ==
    /\ eng'.stats.total_events_sent = eng.stats.total_events_sent
    /\ eng'.stats.failed_events = eng.stats.failed_events

\* an attempt on a usable transport answered 200, 201 or 204 ends the call
\* and counts the event as sent
C9_SuccessStops(t) ==
    /\ PostCallReturned(t)
    /\ eng'.stats.total_events_sent = eng.stats.total_events_sent + 1
    /\ eng'.stats.failed_events = eng.stats.failed_events
    /\ eng'.event_queue = eng.event_queue

\* a failed attempt before the third is followed by another attempt
C9_Retry(t) ==
    /\ At(eng', t, "post")
    /\ eng'.threads[t].attempt = eng.threads[t].attempt + 1
    /\ SameCounters
    /\ eng'.event_queue = eng.event_queue

\* the third failed attempt ends the call: one more failed event, the
\* envelope offered to the overflow queue once, nothing counted as sent
C9_Exhausted(t) ==
    /\ PostCallReturned(t)
    /\ eng'.stats.failed_events = eng.stats.failed_events + 1
    /\ eng'.stats.total_events_sent = eng.stats.total_events_sent
    /\ \/ eng'.event_queue = Append(eng.event_queue, Payload(eng, t))
       \/ /\ Len(eng.event_queue) = EVENT_QUEUE_MAX_SIZE
          /\ eng'.event_queue = eng.event_queue

C9_Step(t) ==
    IF eng.http_client # "open" THEN SameCounters
    ELSE IF server_up THEN C9_SuccessStops(t)
    ELSE IF eng.threads[t].attempt < 3 THEN C9_Retry(t)
    ELSE C9_Exhausted(t)

\* C9: a post_event call makes at most 3 POST attempts and stops at the
\* first one answered 200, 201 or 204; any other answer or a transport error
\* is a failed attempt; after 3 failed attempts failed_events grows by
\* exactly 1, the envelope is offered to the overflow queue once and
\* total_events_sent is unchanged
C9_PostEvent ==
    /\ [](\A t \in ThreadIds :
            At(eng, t, "post") => eng.threads[t].attempt \in 1..3)
    /\ [][\A t \in ThreadIds : PostStep(t) => C9_Step(t)]_vars

\* a post_event call has used its 3 attempts and another one has succeeded
C9_Witness ==
    /\ eng.stats.failed_events >= 1
    /\ eng.stats.total_events_sent >= 1
    /\ Len(eng.event_queue) >= 1

LastError(s) ==
    IF s.stats.errors = <<>> THEN "" ELSE s.stats.errors[Len(s.stats.errors)]

\* the third failed attempt of a call that finds the overflow queue full
C10_DropStep(t) ==
    /\ PostStep(t)
    /\ eng.http_client = "open" /\ ~server_up
    /\ eng.threads[t].attempt = MAX_RETRY_ATTEMPTS
    /\ Len(eng.event_queue) = EVENT_QUEUE_MAX_SIZE

\* C10: the overflow queue never holds more than its capacity; an envelope
\* that fails delivery while the queue is full is dropped, the queue is
\* unchanged, an error record is logged and post_event returns normally
C10_QueueBounded ==
    /\ [](Len(eng.event_queue) <= EVENT_QUEUE_MAX_SIZE)
    /\ [][\A t \in ThreadIds : C10_DropStep(t) =>
            /\ eng'.event_queue = eng.event_queue
            /\ LastError(eng') = "Event queue full - event discarded"
            /\ PostCallReturned(t)]_vars

\* the queue is full and an envelope has been dropped
C10_Witness ==
    /\ Len(eng.event_queue) = EVENT_QUEUE_MAX_SIZE
    /\ LastError(eng) = "Event queue full - event discarded"
    /\ eng.stats.failed_events = EVENT_QUEUE_MAX_SIZE + 1

Counters ==
    {"total_events_sent", "historical_events_sent", "realtime_events_sent",
     "failed_events"}

\* the POST attempt thread t makes in this step is answered 200, 201 or 204
PostAnswered(t) ==
    PostStep(t) /\ eng.http_client = "open" /\ server_up

\* C11: over the lifetime of an engine every successfully posted envelope
\* increases total_events_sent by exactly 1, total_events_sent changes in no
\* other way, and none of the four counters decreases in any step (post,
\* reconnect, stop, status)
C11_CountersMonotone ==
    [][/\ \A c \in Counters : eng'.stats[c] >= eng.stats[c]
       /\ \A t \in ThreadIds : PostAnswered(t) =>
              eng'.stats.total_events_sent = eng.stats.total_events_sent + 1
       /\ eng'.stats.total_events_sent # eng.stats.total_events_sent =>
              /\ eng'.stats.total_events_sent
                     = eng.stats.total_events_sent + 1
              /\ \E t \in ThreadIds : PostAnswered(t)]_vars

\* envelopes were posted, one failed delivery, the engine reconnected and
\* stop() has returned
C11_Witness ==
    /\ eng.stats.total_events_sent >= 2
    /\ eng.stats.failed_events >= 1
    /\ eng.mode = "stopped" /\ ~eng.is_running /\ eng.stop_pc = "idle"
    /\ eng.stats.errors # <<>>

\* C14: stop() called on an engine whose running flag is false (never
\* started, or already stopped) returns a failure result and changes no
\* engine state, and no cleanup of a stop() follows
C14_StopNotRunning ==
    /\ [](~eng.is_running =>
            (stop_begin(eng) = eng /\ ~stop_result(eng).success))
    /\ [][(~eng.is_running /\ eng.stop_pc = "idle")
            => eng'.stop_pc = "idle"]_vars

\* stop() has returned and the thread of the engine has not finished yet
C14_Witness ==
    /\ ~eng.is_running /\ eng.stop_pc = "idle"
    /\ eng.mode = "stopped"
    /\ AliveThreads(eng) # {}

\* C15: at most one background thread of an engine is alive at any time,
\* and a start() made while the engine is running returns a failure and
\* spawns no thread
C15_SingleTask ==
    /\ Cardinality(AliveThreads(eng)) <= 1
    /\ eng.is_running =>
          \A t \in ThreadIds :
              start(eng, t) = eng /\ ~start_result(eng).success

\* a successful stop() has returned
StopReturned ==
    eng.stats.started_at = "set" /\ ~eng.is_running /\ eng.stop_pc = "idle"

\* C16: the statistics a successful stop() returns are final: after stop()
\* has returned no counter of the engine changes, no error record is added
\* and its thread attempts no further POST
C16_FinalStatistics ==
    [][StopReturned =>
          /\ \A c \in Counters : eng'.stats[c] = eng.stats[c]
          /\ eng'.stats.errors = eng.stats.errors
          /\ \A t \in ThreadIds : ~PostStep(t)]_vars

---------------------------------------------------------------------------
(* Claims about the agent *)

\* C5: in every reachable state, every device_id for which the coordinator
\* holds an engine is a device_id present in the registry
C5_EnginesRegistered ==
    DOMAIN stream_managers \subseteq DOMAIN pool.devices

\* C6: every payload the poller submits to send_result carries a result
\* field and that field is a mapping
C6_ResultIsMapping ==
    \A i \in 1..Len(sent_results) :
        /\ "result" \in DOMAIN sent_results[i]
        /\ sent_results[i].result.type = "dict"

\* C7: execute_command returns an envelope and never raises to its caller;
\* a failure comes back as an envelope
C7_DispatchNeverRaises ==
    last_dispatch.called =>
        /\ ~last_dispatch.raised
        /\ "success" \in DOMAIN last_dispatch.value

\* the sum of the held engines' total_events_sent counters
TotalEventsSent(sm) ==
    SumOver([d \in DOMAIN sm |-> sm[d].stats.total_events_sent], DOMAIN sm)

\* the number of held engines per state
ModeBreakdown(sm) ==
    [m \in { sm[d].mode : d \in DOMAIN sm } |->
        Cardinality({ d \in DOMAIN sm : sm[d].mode = m })]

\* C8: whenever the coordinator holds one or more engines,
\* get_all_streaming_status returns normally, with total_events_sent the sum
\* of the engines' counters and mode_breakdown the engines per state
C8_StatusAggregates ==
    [][(last_status' # last_status /\ DOMAIN stream_managers # {}) =>
         /\ ~last_status'.raised
         /\ last_status'.value.total_events_sent
                = TotalEventsSent(stream_managers)
         /\ last_status'.value.mode_breakdown
                = ModeBreakdown(stream_managers)]_vars

\* the router's last call was this registry command and returned an envelope
LastCommand(name) ==
    /\ last_dispatch.called /\ ~last_dispatch.raised
    /\ last_dispatch.value.command = name

\* this step is a call of the router with the registry command name
DispatchOf(name) ==
    /\ last_dispatch' # last_dispatch
    /\ last_dispatch'.called /\ ~last_dispatch'.raised
    /\ last_dispatch'.value.command = name

\* C12: a register call whose device_id is already present returns a
\* failure result and leaves the record map and the capability map as they
\* are, and the registry holds exactly one record per device_id
C12_DuplicateRegister ==
    /\ [](/\ DOMAIN pool.device_cores = DOMAIN pool.devices
          /\ SeqToSet(pool.order) = DOMAIN pool.devices
          /\ Len(pool.order) = Cardinality(DOMAIN pool.devices)
          /\ \A d \in DOMAIN pool.devices, e \in DeviceIds,
                 port \in RegisterPorts :
                 /\ register_device(pool, d, DeviceIp(e), port,
                                    Some(DEFAULT_PASSWORD), PyNone, PyNone)
                        = pool
                 /\ ~register_device_result(pool, d, DeviceIp(e), port,
                        Some(DEFAULT_PASSWORD), PyNone, PyNone).success)
    /\ [][(DispatchOf("register_device")
            /\ last_dispatch'.value.device_id \in DOMAIN pool.devices)
           => (pool' = pool /\ ~last_dispatch'.value.success)]_vars

\* the router has just refused to register a device the registry holds
C12_Witness ==
    /\ LastCommand("register_device")
    /\ ~last_dispatch.value.success
    /\ last_dispatch.value.device_id \in DOMAIN pool.devices

\* C13: unregister called with a device_id that is not in the registry
\* returns a failure result and changes nothing: records, capabilities and
\* the persisted file stay as they are
C13_UnregisterMissing ==
    /\ [](\A d \in (DeviceIds \cup {NoString}) \ DOMAIN pool.devices :
             /\ unregister_device(pool, d) = pool
             /\ ~unregister_device_result(pool, d).success)
    /\ [][(DispatchOf("unregister_device")
            /\ last_dispatch'.value.device_id \notin DOMAIN pool.devices)
           => (pool' = pool /\ ~last_dispatch'.value.success)]_vars

\* the router has just refused to unregister a device_id the registry,
\* which holds another device, does not know
C13_Witness ==
    /\ LastCommand("unregister_device")
    /\ ~last_dispatch.value.success
    /\ last_dispatch.value.device_id \notin DOMAIN pool.devices
    /\ DOMAIN pool.devices # {}

\* what the coordinator's start(d) does in this state: a failure that creates
\* nothing, or exactly one started engine for d
StartOutcome(d) ==
    LET r == start_streaming_device(stream_managers, pool, d)
    IN IF d \in DOMAIN stream_managers \/ d \notin DOMAIN pool.devices
       THEN ~r.result.success /\ r.stream_managers = stream_managers
       ELSE /\ r.result.success
            /\ DOMAIN r.stream_managers = DOMAIN stream_managers \cup {d}
            /\ r.stream_managers[d].device_id = d
            /\ r.stream_managers[d].is_running
            /\ Cardinality(AliveThreads(r.stream_managers[d])) = 1
            /\ \A e \in DOMAIN stream_managers :
                   r.stream_managers[e] = stream_managers[e]

\* what the coordinator's stop(d) does in this state: a failure that changes
\* nothing, or the engine of d stopped and removed
StopOutcome(d) ==
    LET r == stop_streaming_device(stream_managers, d)
    IN IF d \notin DOMAIN stream_managers
       THEN ~r.result.success /\ r.stream_managers = stream_managers
       ELSE /\ r.result.success
            /\ DOMAIN r.stream_managers = DOMAIN stream_managers \ {d}
            /\ \A e \in DOMAIN r.stream_managers :
                   r.stream_managers[e] = stream_managers[e]

\* the engine held for d after this step is the one held before it, as it
\* was or one step of one of its threads later
SameEngine(d) ==
    \/ stream_managers'[d] = stream_managers[d]
    \/ \E t \in ThreadIds :
          stream_managers'[d] \in
              ThreadSuccessors(stream_managers[d], t,
                  raw_logs[TerminalAt(stream_managers[d].device_ip)],
                  UpResponses, {TRUE, FALSE})

\* C17: the coordinator's start(device_id) fails and creates no engine when
\* the device has an engine or is not in the registry, and otherwise records
\* exactly one started engine; its stop(device_id) fails and changes nothing
\* when the device has no engine, and otherwise stops and removes it; an
\* engine the coordinator holds is never replaced by another one
C17_StartStop ==
    /\ [](\A d \in DeviceIds : StartOutcome(d) /\ StopOutcome(d))
    /\ [][\A d \in DOMAIN stream_managers \cap DOMAIN stream_managers' :
             SameEngine(d)]_vars

\* both devices are registered, one has an engine that has reached Live and
\* the other has none
C17_Witness ==
    /\ DOMAIN pool.devices = DeviceIds
    /\ DOMAIN stream_managers = {"device_001"}
    /\ stream_managers["device_001"].mode = "live"

\* the start_streaming_all detail entries that report a failure for d: the
\* entries follow the order of the active devices
FailureDetails(details, d) ==
    { i \in 1..Len(details) :
        get_active_devices(pool)[i].device_id = d /\ ~details[i].success }

\* what start, start_streaming_all and stop followed by start do for a
\* registered device d whose engine is in Error
ErrorEngineKept(d) ==
    LET r == start_streaming_device(stream_managers, pool, d)
        all == start_streaming_all(stream_managers, pool)
        stopped == stop_streaming_device(stream_managers, d)
        again == start_streaming_device(stopped.stream_managers, pool, d)
    IN /\ ~r.result.success /\ r.stream_managers = stream_managers
       /\ all.stream_managers[d] = stream_managers[d]
       /\ FailureDetails(all.result.details, d) # {}
       /\ stopped.result.success /\ d \notin DOMAIN stopped.stream_managers
       /\ again.result.success
       /\ again.stream_managers[d] =
              start(StreamManagerInit(d, pool.devices[d].device_ip), 1)

\* C18: when an engine the coordinator holds has reached Error through 3
\* failed reconnection attempts, start_streaming_all and start for that
\* device neither restart the engine nor create a second one and report a
\* failure for the device, which gets a fresh engine only by a stop followed
\* by a start
C18_ErrorEngineNotRestarted ==
    /\ [](\A d \in DOMAIN stream_managers \cap DOMAIN pool.devices :
             stream_managers[d].mode = "error" => ErrorEngineKept(d))
    /\ [][\A d \in DOMAIN stream_managers \cap DOMAIN stream_managers' :
             stream_managers[d].mode = "error" => SameEngine(d)]_vars

\* an engine of a registered device is in Error after its third failed
\* reconnection attempt
C18_Witness ==
    \E d \in DOMAIN stream_managers \cap DOMAIN pool.devices :
        /\ stream_managers[d].mode = "error"
        /\ stream_managers[d].threads[1].rattempt = RECONNECT_MAX_ATTEMPTS

\* start_streaming_all attempts every active device: one detail per device,
\* each what start for that device alone returns
StartAllOutcome ==
    LET devices == get_active_devices(pool)
        a == start_streaming_all(stream_managers, pool)
    IN /\ a.result.total = Len(devices)
       /\ Len(a.result.details) = a.result.total
       /\ a.result.started + a.result.failed = a.result.total
       /\ \A i \in 1..Len(devices) :
              a.result.details[i] =
                  start_streaming_device(stream_managers, pool,
                                         devices[i].device_id).result
       /\ DOMAIN a.stream_managers =
              DOMAIN stream_managers \cup DOMAIN pool.devices

\* stop_streaming_all attempts every streaming device: one detail per
\* device, each what stop for that device alone returns
StopAllOutcome ==
    LET z == stop_streaming_all(stream_managers)
    IN /\ z.result.total = Cardinality(DOMAIN stream_managers)
       /\ Len(z.result.details) = z.result.total
       /\ z.result.stopped + z.result.failed = z.result.total
       /\ \A i \in 1..Len(z.result.details) :
              \E d \in DOMAIN stream_managers :
                  z.result.details[i] =
                      stop_streaming_device(stream_managers, d).result
       /\ z.stream_managers = EmptyMap

\* C19: start_all attempts start on every active registry device and
\* stop_all attempts stop on every streaming device, each independently of
\* the others' outcomes; the result has one detail entry per device and
\* started + failed = total (stopped + failed = total)
C19_AllCounts == StartAllOutcome /\ StopAllOutcome

\* start_all would fail for the first device, which is streaming, and
\* succeed for the second; stop_all would stop one engine
C19_Witness ==
    /\ pool.order = <<"device_001", "device_002">>
    /\ start_streaming_all(stream_managers, pool).result.failed = 1
    /\ start_streaming_all(stream_managers, pool).result.started = 1
    /\ stop_streaming_all(stream_managers).result.stopped = 1
    /\ "device_001" \in DOMAIN stream_managers

\* operations that take each exit path of execute_on_device: success, a
\* missing parameter, a name the capability has no method for
ExecuteOperations == {"get_users", "get_device_info", "delete_user", "reboot"}

\* what an execute call leaves behind when it resolved a capability: the
\* capability is disconnected, it was connected if the operation was
\* invoked, and every capability of the registry is disconnected
ScopedConnection(r) ==
    r.core # PyNone =>
        /\ ~r.core[1].conn
        /\ r.invoked # PyNone => r.invoked[1]
        /\ \A d \in DOMAIN r.pool.device_cores : ~r.pool.device_cores[d].conn

\* C20: for every execute call that resolves a capability, the capability
\* is connected before the named operation is invoked and is disconnected
\* when execute returns, on every exit path: success, unknown operation,
\* parameter error, device error during the operation, connect failure
C20_ScopedConnection ==
    /\ \A d \in DOMAIN pool.device_cores : ~pool.device_cores[d].conn
    /\ \A target \in Targets \ {NoString}, operation \in ExecuteOperations,
          dev \in DeviceBehaviours :
          ScopedConnection(execute_on_device(pool, target, operation,
                                             EmptyMap, dev, raw_logs, clock))

\* the router has just returned the failure of an operation on a registered
\* device, whose capability is disconnected
C20_Witness ==
    /\ LastCommand("get_users")
    /\ ~last_dispatch.value.success
    /\ last_dispatch.value.device_id \in DOMAIN pool.devices
    /\ ~pool.device_cores[last_dispatch.value.device_id].conn

\* this step is a call of the router with a command of the command table,
\* which returned an envelope
ExecuteReturned ==
    /\ last_dispatch' # last_dispatch
    /\ last_dispatch'.called /\ ~last_dispatch'.raised
    /\ last_dispatch'.value.command \in DOMAIN command_map

\* the registered devices a routing target addresses: the device with that
\* device_id, or the devices with that address
Addressed(p, target) ==
    { d \in DOMAIN p.devices : d = target \/ p.devices[d].device_ip = target }

\* no record's last_seen differs between the two registries
SameLastSeen(p, q) ==
    /\ DOMAIN q.devices = DOMAIN p.devices
    /\ \A d \in DOMAIN p.devices :
           q.devices[d].last_seen = p.devices[d].last_seen

\* C21: after execute returns success for an operation on a registered
\* device, that device's record has last_seen set to the time of the call,
\* whether the device was addressed by its device_id or by its address; after
\* an execute that returns failure no record's last_seen has changed
C21_LastSeenUpdated ==
    [][ExecuteReturned =>
          IF last_dispatch'.value.success
          THEN \A d \in Addressed(pool, last_dispatch'.value.device_id) :
                   pool'.devices[d].last_seen = Some(clock)
          ELSE SameLastSeen(pool, pool')]_vars

\* keyword parameters a command can carry: none, routing keys alone, the
\* parameter of delete_user with and without routing keys, a parameter no
\* operation takes, and a key that repeats a named parameter of execute
ExecuteParams ==
    { EmptyMap,
      [device_id |-> "device_001", agent_id |-> "agent"],
      [uid |-> 1],
      [uid |-> 1, device_ip |-> DeviceIp("device_001")],
      [bogus |-> 1],
      [operation |-> "get_users"] }

\* the parameters without the routing-only keys
WithoutRouting(kwargs) ==
    [k \in DOMAIN kwargs \ routing_params |-> kwargs[k]]

\* the call cannot succeed: the capability has no such operation, the
\* parameters do not fit it, the connect fails or the operation raises
MustFail(operation, kwargs, dev) ==
    \/ operation \notin ESSLOperations
    \/ ~(RequiredParams(operation) \subseteq DOMAIN WithoutRouting(kwargs))
    \/ ~(DOMAIN WithoutRouting(kwargs) \subseteq AllowedParams(operation))
    \/ ~dev.connect
    \/ dev.fails

\* one execute call returns; it returns a failure with an error message when
\* it cannot succeed; and it returns what the call without the routing-only
\* keys returns
ExecuteReturns(target, operation, kwargs, dev) ==
    LET r == execute_on_device(pool, target, operation, kwargs, dev,
                               raw_logs, clock)
        clean == execute_on_device(pool, target, operation,
                                   WithoutRouting(kwargs), dev, raw_logs,
                                   clock)
    IN /\ ~r.raised
       /\ "success" \in DOMAIN r.result
       /\ MustFail(operation, kwargs, dev) =>
              (~r.result.success /\ "error" \in DOMAIN r.result)
       /\ r.result = clean.result /\ r.pool = clean.pool

\* C22: execute never raises: an unknown operation name, a parameter
\* mismatch, a connect failure and a failure raised by the capability each
\* come back as a returned result with success false and an error message,
\* the routing-only keys device_id, device_ip and agent_id never reach the
\* invoked operation, and no call of the router ends with an exception of
\* execute
C22_ExecuteNeverRaises ==
    /\ [](\A target \in Targets \ {NoString},
             operation \in ExecuteOperations, kwargs \in ExecuteParams,
             dev \in DeviceBehaviours :
             ExecuteReturns(target, operation, kwargs, dev))
    /\ [][~(/\ last_dispatch' # last_dispatch
            /\ last_dispatch'.raised
            /\ last_dispatch'.exc = "TypeError")]_vars

\* the routing target execute_command reads from a command
RoutingTarget(cmd) ==
    IF Get(cmd, "device_id", NoString) # NoString THEN cmd.device_id
    ELSE Get(cmd, "device_ip", NoString)

\* the commands of the command table that name a target
MappedCommands ==
    { cmd \in TerminalCommands :
        cmd.command \in DOMAIN command_map /\ RoutingTarget(cmd) # NoString }

\* values an operation can return: sequences, mappings and scalars
SampleReturns ==
    { PyList(<<>>), PyList(DeviceUsers), PyList(<<"a", "b">>),
      PyDict(EmptyMap), PyDict([firmware |-> "Ver 6.60"]),
      [type |-> "int", val |-> 7], [type |-> "str", val |-> "ok"],
      [type |-> "NoneType", val |-> PyNone] }

\* the result the envelope shall carry for what the operation returned
Normalised(command, x) ==
    CASE x.type = "list" /\ command = "get_users" ->
             [users |-> x.val, count |-> Len(x.val)]
      [] x.type = "list" /\ command = "get_attendance" ->
             [logs |-> x.val, count |-> Len(x.val)]
      [] x.type = "list" /\ command \notin {"get_users", "get_attendance"} ->
             [items |-> x.val, count |-> Len(x.val)]
      [] x.type = "dict" -> x.val
      [] OTHER -> [value |-> x.val]

\* the envelope execute_command builds for cmd from the execute result ex,
\* and the one it would build had the operation returned x
NormalisedEnvelope(cmd, ex) ==
    LET env == DeviceEnvelope(pool, cmd.id, cmd.command, RoutingTarget(cmd),
                              ex, clock).out
    IN ~ex.raised =>
        /\ ~env.raised
        /\ env.value.success = ex.result.success
        /\ ex.result.success =>
             /\ env.value.result =
                    PyDict(Normalised(cmd.command, ex.result.result))
             /\ \A x \in SampleReturns :
                    DeviceEnvelope(pool, cmd.id, cmd.command,
                        RoutingTarget(cmd),
                        [ex EXCEPT !.result.result = x],
                        clock).out.value.result
                      = PyDict(Normalised(cmd.command, x))

\* what execute returns for cmd while the terminal behaves as dev
ExecuteFor(cmd, dev) ==
    execute_on_device(pool, RoutingTarget(cmd), command_map[cmd.command],
        AttendanceParams(cmd.command, Get(cmd, "params", EmptyMap)),
        dev, raw_logs, clock)

\* C23: for a command of the command table the envelope's result is
\* {users: seq, count: len(seq)} for get_users returning a sequence, {logs:
\* seq, count: len(seq)} for get_attendance, {items: seq, count: len(seq)}
\* for any other command returning a sequence, the mapping itself when the
\* operation returns a mapping and {value: x} when it returns a scalar x;
\* the envelope's success is the success of the execute result
C23_ResultNormalised ==
    \A cmd \in MappedCommands :
        /\ \A dev \in DeviceBehaviours :
               NormalisedEnvelope(cmd, ExecuteFor(cmd, dev))
        /\ execute_command(pool, cmd, Healthy, raw_logs, clock).out
               = DeviceEnvelope(pool, cmd.id, cmd.command,
                                RoutingTarget(cmd), ExecuteFor(cmd, Healthy),
                                clock).out

\* the router has just returned the users of a registered terminal, one
\* user under the key users with count 1
C23_Witness ==
    /\ LastCommand("get_users")
    /\ last_dispatch.value.success
    /\ last_dispatch.value.device_id \in DOMAIN pool.devices
    /\ last_dispatch.value.result
           = PyDict([users |-> DeviceUsers, count |-> 1])

\* commands with a routing target whose name is neither a management command
\* nor in the command table
UnknownCommands ==
    { cmd \in TerminalCommands :
        /\ cmd.command \notin ManagementCommands \cup DOMAIN command_map
        /\ cmd.command # NoString
        /\ RoutingTarget(cmd) # NoString }
    \cup { DeviceCommand("bogus_cmd", "device_001", [uid |-> 1]),
           DeviceCommand("unlock_door", "device_002", EmptyMap) }

\* the envelope that refuses cmd as unknown
UnknownCommandEnvelope(cmd) ==
    Envelope(cmd.id, cmd.command, PyDict([error |-> "Unknown command"]), "",
             RoutingTarget(cmd), FALSE, clock)

\* this step is a call of the router that returned the refusal of an
\* unknown command
RefusedUnknown ==
    /\ last_dispatch' # last_dispatch
    /\ last_dispatch'.called /\ ~last_dispatch'.raised
    /\ last_dispatch'.value.command
           \notin ManagementCommands \cup DOMAIN command_map \cup {NoString}
    /\ last_dispatch'.value.device_id # NoString

\* C24: dispatching a command whose name is neither a management command
\* nor in the command table, with a routing target present, returns an
\* envelope with success false and the error "Unknown command", raises
\* nothing and leaves the registry, its records and its capabilities as they
\* are, whatever the terminal would do
C24_UnknownCommand ==
    /\ [](\A cmd \in UnknownCommands, dev \in DeviceBehaviours :
             execute_command(pool, cmd, dev, raw_logs, clock)
                 = [pool |-> pool,
                    out |-> Returned(UnknownCommandEnvelope(cmd))])
    /\ [][RefusedUnknown =>
            /\ pool' = pool
            /\ ~last_dispatch'.value.success
            /\ last_dispatch'.value.result
                   = PyDict([error |-> "Unknown command"])]_vars

\* the router has just refused the unknown command reboot for a registered
\* device
C24_Witness ==
    /\ last_dispatch.called /\ ~last_dispatch.raised
    /\ last_dispatch.value.command = "reboot"
    /\ last_dispatch.value.device_id \in DOMAIN pool.devices
    /\ ~last_dispatch.value.success
    /\ last_dispatch.value.result = PyDict([error |-> "Unknown command"])

\* this step is thread t leaving the connect or the fetch of the historical
\* sync by a failure of the terminal
SyncFailure(t) ==
    /\ eng.threads[t].pc \in {"sync_connect", "sync_fetch"}
    /\ eng'.threads[t].pc \notin {"sync_connect", "sync_fetch", "sync_loop"}

\* thread t has logged a failed sync and has not yet entered the live loop
AfterSyncFailure(t) ==
    /\ eng.threads[t].pc \in {"live_check", "live_mode"}
    /\ eng.stats.errors # <<>>
    /\ LastError(eng) = "Device error during sync"

\* C25: if connecting to the device or fetching the historical records fails
\* during Syncing, the failure is logged in the error ring and the thread
\* goes on to the live loop with the mode untouched; a running engine is
\* then in Syncing, never in Error or Reconnecting, until it eventually
\* reaches Live, unless it is stopped first
C25_SyncBestEffort ==
    /\ [][\A t \in ThreadIds : SyncFailure(t) =>
            /\ eng'.threads[t].pc = "live_check"
            /\ eng'.mode = eng.mode
            /\ eng'.is_running = eng.is_running
            /\ LastError(eng') = "Device error during sync"]_vars
    /\ [](\A t \in ThreadIds :
            (AfterSyncFailure(t) /\ eng.is_running) => eng.mode = "syncing")
    /\ \A t \in ThreadIds :
          (AfterSyncFailure(t) /\ eng.is_running)
              ~> (eng.mode = "live" \/ ~eng.is_running)

\* a running engine is in Live with the failure of its sync in the error
\* ring
C25_Witness ==
    /\ eng.is_running
    /\ eng.mode = "live"
    /\ eng.stats.errors # <<>>
    /\ eng.stats.errors[1] = "Device error during sync"
    /\ \E t \in ThreadIds : eng.threads[t].pc = "live_connect"

\* thread t is inside a post of a historical, or of a realtime, envelope
HistoricalPost(s, t) ==
    s.threads[t].pc = "post" /\ s.threads[t].etype = "historical"
RealtimePost(s, t) ==
    s.threads[t].pc = "post" /\ s.threads[t].etype = "realtime"

\* thread t has left the historical sync
AfterSync(s, t) ==
    \/ s.threads[t].pc \in
           {"live_check", "live_mode", "live_while", "live_connect",
            "live_capture", "reconn_loop", "reconn_connect", "run_finally",
            "done"}
    \/ RealtimePost(s, t)

NewestFirst(logs) ==
    \A i, j \in 1..Len(logs) :
        i < j => logs[i].timestamp >= logs[j].timestamp

\* this step is a step of thread t
Steps(t) == eng'.threads[t] # eng.threads[t]

\* the fetch hands the sync loop the terminal's records of the lookback
\* window, newest first, and the loop starts at the first of them
FetchOrder(t) ==
    (At(eng, t, "sync_fetch") /\ At(eng', t, "sync_loop")) =>
        /\ eng'.threads[t].logs =
               get_attendance(raw_logs[eng.device_id],
                              Some(SyncClock - INITIAL_SYNC_HOURS), PyNone)
        /\ NewestFirst(eng'.threads[t].logs)
        /\ eng'.threads[t].idx = 1

\* the loop posts the record at its index and leaves the sync only at the
\* end of the list or when the engine is stopped
LoopOrder(t) ==
    (At(eng, t, "sync_loop") /\ Steps(t)) =>
        IF eng.is_running /\ eng.threads[t].idx <= Len(eng.threads[t].logs)
        THEN /\ HistoricalPost(eng', t)
             /\ eng'.threads[t].ev = eng.threads[t].logs[eng.threads[t].idx]
             /\ eng'.threads[t].idx = eng.threads[t].idx
             /\ eng'.threads[t].logs = eng.threads[t].logs
        ELSE At(eng', t, "live_check")

\* a post of a historical envelope is followed by another attempt for the
\* same record or by the loop at the next record; it leaves the sync only
\* on a stopped engine
PostOrder(t) ==
    (HistoricalPost(eng, t) /\ Steps(t)) =>
        /\ eng'.threads[t].logs = eng.threads[t].logs
        /\ \/ /\ HistoricalPost(eng', t)
              /\ eng'.threads[t].ev = eng.threads[t].ev
              /\ eng'.threads[t].idx = eng.threads[t].idx
           \/ /\ At(eng', t, "sync_loop")
              /\ eng'.threads[t].idx = eng.threads[t].idx + 1
           \/ ~eng.is_running /\ At(eng', t, "live_check")

\* C26: within one engine every historical post attempt happens before the
\* first realtime post attempt, and the historical envelopes are posted one
\* at a time in the order in which the attendance fetch returned them,
\* newest first, no record being skipped or reordered while the engine is
\* running
C26_HistoricalOrder ==
    [][\A t \in ThreadIds :
          /\ AfterSync(eng, t) => AfterSync(eng', t)
          /\ (RealtimePost(eng', t) /\ ~RealtimePost(eng, t)) =>
                 At(eng, t, "live_capture")
          /\ FetchOrder(t)
          /\ LoopOrder(t)
          /\ PostOrder(t)]_vars

\* a running engine is posting the second, older, of the fetched records
\* after the first one went through its post
C26_Witness ==
    \E t \in ThreadIds :
        /\ eng.is_running
        /\ HistoricalPost(eng, t)
        /\ eng.threads[t].idx = 2
        /\ eng.threads[t].ev = eng.threads[t].logs[2]
        /\ eng.threads[t].logs[1].timestamp > eng.threads[t].logs[2].timestamp
        /\ eng.stats.historical_events_sent + eng.stats.failed_events = 1

\* what one poll cycle leaves behind: the loop and its flag are as before,
\* the poll is counted, and a transport error of the fetch, a dispatch that
\* raised or returned a failure and a transport error of the submission are
\* in the poller's statistics
CycleRecorded(r, fetch, send) ==
    /\ r.poller.is_running = poller.is_running
    /\ r.poller.loops = poller.loops
    /\ r.poller.stats.total_polls = poller.stats.total_polls + 1
    /\ fetch.kind = "ConnectError" =>
           (r.sent = PyNone /\ LastError(r.poller) = "Connection error")
    /\ (r.dispatch.called /\ r.dispatch.raised) =>
           /\ r.poller.stats.commands_failed
                  = poller.stats.commands_failed + 1
           /\ "Command execution error" \in SeqToSet(r.poller.stats.errors)
    /\ (r.dispatch.called /\ ~r.dispatch.raised
          /\ ~r.dispatch.value.success) =>
           r.poller.stats.commands_failed = poller.stats.commands_failed + 1
    /\ (r.sent # PyNone /\ send.kind = "ConnectError") =>
           LastError(r.poller) = "Connection error when sending result"

C28_OneLoop == poller.loops <= 1

\* the fetch returned status 200 with a JSON body whose data field is
\* non-null
HasCommand(fetch) ==
    /\ fetch.kind = "response" /\ fetch.status_code = 200
    /\ fetch.body # PyNone /\ fetch.body.type = "dict"
    /\ Get(fetch.body.val, "data", PyNone) # PyNone

\* what a poll cycle does with the fetch's outcome
DispatchedIffCommand(r, fetch) ==
    /\ (r.dispatch.called /\ r.sent # PyNone) <=> HasCommand(fetch)
    /\ HasCommand(fetch) =>
           r.poller.stats.commands_received
               = poller.stats.commands_received + 1
    /\ ~HasCommand(fetch) =>
           /\ ~r.dispatch.called /\ r.sent = PyNone
           /\ r.poller.stats.commands_received
                  = poller.stats.commands_received

\* C29: in each poll cycle the router is invoked and a result is submitted
\* if and only if the fetch returned status 200 with a JSON body whose data
\* field is non-null, and then exactly one result is submitted in that
\* cycle; for any other status or for null data nothing is dispatched or
\* submitted and commands_received is unchanged
C29_DispatchIffCommand ==
    (poller.is_running /\ poller.loops >= 1) =>
        \A fetch \in FetchResponses, dev \in DeviceBehaviours,
           send \in SendResponses :
           DispatchedIffCommand(_poll_cycle(poller, pool, fetch, dev, send,
                                            raw_logs, clock), fetch)

\* the part of C29 that the code keeps: the same statement for the fetches
\* whose data, when present, is a non-empty JSON object
DispatchIffObjectCommand ==
    (poller.is_running /\ poller.loops >= 1) =>
        \A fetch \in { f \in FetchResponses :
                         HasCommand(f) =>
                             /\ f.body.val.data[1].type = "dict"
                             /\ DOMAIN f.body.val.data[1].val # {} },
           dev \in DeviceBehaviours, send \in SendResponses :
           DispatchedIffCommand(_poll_cycle(poller, pool, fetch, dev, send,
                                            raw_logs, clock), fetch)

\* the fields of a DeviceRecord
RecordFields ==
    {"device_ip", "port", "password", "name", "location", "is_active",
     "last_seen"}

\* the registry q has the devices of the registry p, with equal records in
\* the given fields and capabilities bound to the same terminals
SameRegistry(p, q, fields) ==
    /\ DOMAIN q.devices = DOMAIN p.devices
    /\ DOMAIN q.device_cores = DOMAIN p.device_cores
    /\ \A d \in DOMAIN p.devices :
          /\ q.devices[d].device_id = p.devices[d].device_id
          /\ "device_ip" \in fields =>
                 /\ q.devices[d].device_ip = p.devices[d].device_ip
                 /\ q.device_cores[d].device_ip = p.device_cores[d].device_ip
          /\ "port" \in fields =>
                 /\ q.devices[d].port = p.devices[d].port
                 /\ q.device_cores[d].port = p.device_cores[d].port
          /\ "password" \in fields =>
                 /\ q.devices[d].password = p.devices[d].password
                 /\ q.device_cores[d].password = p.device_cores[d].password
          /\ "name" \in fields => q.devices[d].name = p.devices[d].name
          /\ "location" \in fields =>
                 q.devices[d].location = p.devices[d].location
          /\ "is_active" \in fields =>
                 q.devices[d].is_active = p.devices[d].is_active
          /\ "last_seen" \in fields =>
                 q.devices[d].last_seen = p.devices[d].last_seen

\* C30: persisting the registry and reloading it at startup is a round
\* trip: the reloaded registry has, for every device_id, a record equal to
\* the one before the restart in address, port, shared secret, display name,
\* location, active flag and last_seen, and a capability bound with the same
\* address, port and shared secret
C30_RoundTrip == [][Reload => SameRegistry(pool, pool', RecordFields)]_vars

\* what the reload does keep: every field but the shared secret and
\* last_seen, and the order of the devices
ReloadKeeps ==
    [][Reload =>
          /\ SameRegistry(pool, pool',
                          RecordFields \ {"password", "last_seen"})
          /\ pool'.order = pool.order
          /\ pool'.data_file = pool.data_file]_vars

\* C31: after every registry mutation has completed (register, unregister,
\* and the last_seen update of a successful operation or health check) the
\* persisted device records are the in-memory device records: data.json
\* holds what _save_devices would write now, and when there is no file yet
\* the registry is empty
C31_PersistedEqualsMemory ==
    IF pool.data_file = PyNone THEN DOMAIN pool.devices = {}
    ELSE pool.data_file = _save_devices(pool).data_file

\* what the code keeps of C31: the file has a record for exactly the
\* registered device_ids, in their order, equal to the record in memory in
\* every persisted field but last_seen
PersistedButLastSeen ==
    IF pool.data_file = PyNone THEN DOMAIN pool.devices = {}
    ELSE /\ Len(pool.data_file[1]) = Len(pool.order)
         /\ \A i \in 1..Len(pool.order) :
               [pool.data_file[1][i] EXCEPT !.last_seen = PyNone]
                 = [to_dict(pool.devices[pool.order[i]])
                       EXCEPT !.last_seen = PyNone]

\* thread t goes on to the next iteration of the retry loop of a post
NextDeliveryAttempt(t) ==
    /\ At(eng, t, "post") /\ At(eng', t, "post")
    /\ eng'.threads[t].attempt = eng.threads[t].attempt + 1

\* thread t begins a reconnection attempt, a connect of the live loop, the
\* post of a historical record or the processing of a live event
BeginsOtherWork(t) ==
    \/ ~At(eng, t, "reconn_connect") /\ At(eng', t, "reconn_connect")
    \/ ~At(eng, t, "live_connect") /\ At(eng', t, "live_connect")
    \/ ~At(eng, t, "post") /\ At(eng', t, "post")

\* C32: once stop() has set the engine's running flag to false the
\* background task begins no new unit of work: no further delivery attempt
\* within a post's retry loop, no further reconnection attempt, no further
\* historical record post and no further live event is processed, every
\* retry or wait loop testing the flag before its next iteration
C32_NoNewWorkAfterStop ==
    [][~eng.is_running =>
          \A t \in ThreadIds :
              ~NextDeliveryAttempt(t) /\ ~BeginsOtherWork(t)]_vars

\* what the code keeps of C32: with the flag false no reconnection attempt,
\* no connect of the live loop, no historical post and no live event begins
NoOtherWorkAfterStop ==
    [][~eng.is_running => \A t \in ThreadIds : ~BeginsOtherWork(t)]_vars

\* C33: stop() on a running engine always returns, whether or not the
\* background task has finished within the join timeout, and after it the
\* background task eventually terminates: no thread of the engine runs
\* forever once the running flag is false
C33_StopTerminates ==
    /\ (eng.stop_pc = "join") ~> (eng.stop_pc = "idle")
    /\ [][(eng.stop_pc = "join" /\ eng'.stop_pc = "idle") =>
             (~eng'.is_running /\ eng'.threads = eng.threads)]_vars
    /\ \A t \in ThreadIds :
          (~eng.is_running /\ t \in AliveThreads(eng))
            ~> At(eng, t, "done")

\* stop() has returned while the thread is still in the retry loop of a post
C33_Witness ==
    /\ ~eng.is_running /\ eng.stop_pc = "idle" /\ eng.mode = "stopped"
    /\ \E t \in ThreadIds :
          At(eng, t, "post") /\ eng.threads[t].attempt = 2

\* the next step of the method c runs is a call of its capability that
\* talks to the terminal: connect, an operation, or the disconnect of an
\* open connection
DeviceIO(c) ==
    /\ ~Idle(c)
    /\ \/ Top(c).m \in {"execute_on_device", "check_device_health"}
            /\ Top(c).pc \in {"online", "connect", "operate", "disconnect"}
       \/ In(c, "unregister_device", "disconnect")
            /\ pool.device_cores[Top(c).d].conn

\* C34: no device I/O (capability connect, disconnect or operation call)
\* is performed while the registry mutex is held, in any registry
\* operation (register, unregister, lookup, list, execute, health, cleanup)
C34_NoDeviceIOUnderLock ==
    \A c \in Callers : locks.registry = c => ~DeviceIO(c)

\* what the code keeps of C34: the sessions of execute_on_device and
\* check_device_health run without the mutex
SessionsOutsideLock ==
    \A c \in Callers :
        (locks.registry = c /\ DeviceIO(c)) => Top(c).m = "unregister_device"

\* the thread of c is inside a call of cleanup_inactive_devices
InCleanup(c) ==
    ~Idle(c) /\ calls[c][1].m = "cleanup_inactive_devices"

\* C35: cleanup_inactive_devices always terminates, also when at least one
\* device qualifies for removal: every call returns, and it returns after
\* every device whose last_seen is older than the cutoff was handed to
\* unregister_device, with the mutex released
C35_CleanupTerminates ==
    /\ \A c \in Callers : InCleanup(c) ~> Idle(c)
    /\ [][\A c \in Callers :
             (In(c, "cleanup_inactive_devices", "loop")
                /\ Top(c).rest = <<>> /\ Idle(c)') =>
                 (locks.registry = c /\ locks'.registry = Free)]_vars

\* what the code keeps of C35: a call that finds no inactive device
\* returns and leaves the records and the capabilities as they are
CleanupWithoutInactive ==
    /\ \A c \in Callers :
          (In(c, "cleanup_inactive_devices", "loop") /\ Len(calls[c]) = 1
              /\ Top(c).rest = <<>>) ~> Idle(c)
    /\ [][\A c \in Callers :
             In(c, "cleanup_inactive_devices", "loop") =>
                 (pool'.devices = pool.devices
                    /\ DOMAIN pool'.device_cores = DOMAIN pool.device_cores)
         ]_vars

\* the error ring as a status query returns it holds the most recent
\* min(n, 50) of the n errors logged so far, in logging order
RingHoldsLatest(errors) ==
    /\ Len(errors) <= ERRORS_MAX
    /\ \A i \in 1..(Len(errors) - 1) :
          errors[i + 1].timestamp = errors[i].timestamp + 1
    /\ errors # <<>> =>
          (errors[1].timestamp = 1 \/ Len(errors) = ERRORS_MAX)

\* C36: in every state a status query can observe, also one that runs
\* concurrently with the engine's thread, the error ring holds at most 50
\* records, and after n logged errors the most recent min(n, 50) of them in
\* logging order
C36_ErrorRing == RingHoldsLatest(get_status(eng).result.statistics.errors)

\* what the code keeps of C36: the same once _log_error has returned
RingAfterLogError ==
    (\A t \in ThreadIds : ~At(eng, t, "log_trim")) =>
        RingHoldsLatest(get_status(eng).result.statistics.errors)

\* C37: after any sequence of startup load, register and unregister calls,
\* in any interleaving, the device_ids that have a record are the
\* device_ids that have a bound capability, and the capability is bound to
\* the address and port of the record
C37_RecordsHaveCapabilities ==
    /\ DOMAIN pool.devices = DOMAIN pool.device_cores
    /\ \A d \in DOMAIN pool.devices :
          /\ pool.device_cores[d].device_ip = pool.devices[d].device_ip
          /\ pool.device_cores[d].port = pool.devices[d].port

\* device_001 was registered and removed again, device_002 is registered
\* and being removed by one thread while another is about to register
\* device_001
C37_Witness ==
    /\ DOMAIN pool.devices = {"device_002"}
    /\ pool.data_file # PyNone
    /\ \E c \in Callers :
          In(c, "unregister_device", "remove") /\ Top(c).d = "device_002"
    /\ \E c \in Callers :
          In(c, "register_device", "begin") /\ Top(c).d = "device_001"

\* C38: every engine in the coordinator's map has its running flag set,
\* whatever its mode; stop_streaming_device for a device of the map
\* succeeds and removes its engine and no other, and stop_streaming_all
\* stops every engine, fails for none and leaves the map empty
C38_MapEnginesRunning ==
    /\ \A d \in DOMAIN stream_managers : stream_managers[d].is_running
    /\ \A d \in DOMAIN stream_managers :
          LET r == stop_streaming_device(stream_managers, d)
          IN /\ r.result.success
             /\ DOMAIN r.stream_managers = DOMAIN stream_managers \ {d}
    /\ LET r == stop_streaming_all(stream_managers)
       IN /\ r.stream_managers = EmptyMap
          /\ r.result.stopped = Cardinality(DOMAIN stream_managers)
          /\ r.result.failed = 0

\* the map holds an engine whose reconnection attempts are exhausted and
\* an engine that is live
C38_Witness ==
    /\ \E d \in DOMAIN stream_managers : stream_managers[d].mode = "error"
    /\ \E d \in DOMAIN stream_managers : stream_managers[d].mode = "live"

\* thread t is delivering an event: inside _send_event_to_server, or back
\* from it and before the caller's counter is updated
Delivering(t) ==
    At(eng, t, "post") \/ At(eng, t, "sent_true") \/ At(eng, t, "sent_false")

\* C39: in every reachable state of one engine, historical_events_sent +
\* realtime_events_sent <= total_events_sent <= historical_events_sent +
\* realtime_events_sent + 1, the sum equals total_events_sent when no
\* delivery is under way, and a None from the capture changes no counter
C39_CounterSum ==
    LET typed == eng.stats.historical_events_sent
                     + eng.stats.realtime_events_sent
    IN /\ typed <= eng.stats.total_events_sent
       /\ eng.stats.total_events_sent <= typed + 1
       /\ (\A t \in ThreadIds : ~Delivering(t)) =>
              eng.stats.total_events_sent = typed
       /\ \A t \in ThreadIds :
              At(eng, t, "live_capture") /\ eng.conn =>
                  LiveCapture(eng, t, NoEvent).stats = eng.stats

\* the same with one unit of slack for every thread that has returned from
\* _send_event_to_server with success and not yet counted the event
CounterSumPerThread ==
    LET typed == eng.stats.historical_events_sent
                     + eng.stats.realtime_events_sent
    IN /\ eng.stats.total_events_sent =
              typed + Cardinality({ t \in ThreadIds : At(eng, t, "sent_true") })
       /\ \A t \in ThreadIds :
              At(eng, t, "live_capture") /\ eng.conn =>
                  LiveCapture(eng, t, NoEvent).stats = eng.stats

\* the thread of caller c waits for a lock that is held
Blocked(c) == Wants(c) # "none" /\ locks[Wants(c)] # Free

\* C40: no interleaving of coordinator operations (start, stop, start_all,
\* stop_all, status, add_and_stream, remove_and_stop) with registry
\* operations (register, unregister, list, lookup, execute, health)
\* deadlocks: no set of threads each wait for a lock held inside the set, a
\* lock is held only by a thread inside a call, no thread requests the
\* coordinator lock while it holds the registry lock, and no thread
\* requests a lock it holds
C40_NoDeadlock ==
    /\ \A S \in SUBSET Callers :
          S # {} => \E c \in S : ~Blocked(c) \/ locks[Wants(c)] \notin S
    /\ \A c \in Callers : Idle(c) => locks.registry # c /\ locks.coordinator # c
    /\ \A c \in Callers :
          Wants(c) = "coordinator" => locks.registry # c
    /\ \A c \in Callers : Wants(c) # "none" => locks[Wants(c)] # c

\* one thread holds the coordinator lock inside start_streaming_device and
\* waits for the registry lock, which another thread holds while it
\* unregisters the device
C40_Witness ==
    \E c, h \in Callers :
        /\ In(c, "start_streaming_device", "get_device_info")
        /\ locks.coordinator = c
        /\ locks.registry = h
        /\ In(h, "unregister_device", "disconnect")

=============================================================================
